---- MODULE Spec2Model ----
(***************************************************************************)
(* A model of the EPUB metadata engine of scrollable-epub-reader           *)
(* (server/src/epub.ts): the path guard safeJoin, the package-document     *)
(* locator findOpfPath and the parser parseOpf with its table-of-contents, *)
(* cover and merge steps.                                                  *)
(*                                                                         *)
(* Strings are sequences of one-character strings, so that startsWith,     *)
(* split("#"), replace(/\\/g, "/"), dirname and basename are computed as   *)
(* the code computes them.                                                 *)
(***************************************************************************)
EXTENDS Integers, Sequences, FiniteSets, TLC

(***************************************************************************)
(* Bounds of the model.                                                    *)
(***************************************************************************)
MaxRootDepth == 2
MaxRelLen == 2
MaxSpine == 3
MaxToc == 2
MaxImages == 2
MaxTitleDepth == 1
MaxTierSpine == 2
MaxClock == 2
MaxRefs == 2
MaxNodes == 3
MaxAnchors == 2
MaxBookmarks == 1

(***************************************************************************)
(* Generic helpers on sequences.                                           *)
(***************************************************************************)
SeqsUpTo(S, n) == UNION {[1..k -> S] : k \in 0..n}

Slash == "/"

\* String.prototype.startsWith
StartsWith(s, p) == Len(p) =< Len(s) /\ SubSeq(s, 1, Len(p)) = p

\* String.prototype.endsWith
EndsWith(s, p) == Len(p) =< Len(s) /\ SubSeq(s, Len(s) - Len(p) + 1, Len(s)) = p

\* String.prototype.split(ch): the pieces between the occurrences of ch
RECURSIVE SplitOn(_, _)
SplitOn(s, ch) ==
  IF \E i \in 1..Len(s) : s[i] = ch
    THEN LET i == CHOOSE k \in 1..Len(s) : s[k] = ch /\ \A j \in 1..(k - 1) : s[j] # ch
         IN <<SubSeq(s, 1, i - 1)>> \o SplitOn(SubSeq(s, i + 1, Len(s)), ch)
    ELSE <<s>>

\* Array.prototype.join(ch)
RECURSIVE JoinWith(_, _)
JoinWith(segs, ch) ==
  IF segs = <<>> THEN <<>>
  ELSE IF Len(segs) = 1 THEN segs[1]
  ELSE segs[1] \o <<ch>> \o JoinWith(Tail(segs), ch)

\* s.replace(/\\/g, "/")
BackslashToSlash(s) == [i \in 1..Len(s) |-> IF s[i] = "\\" THEN Slash ELSE s[i]]

\* s.split("#")[0]
BeforeHash(s) == SplitOn(s, "#")[1]

(***************************************************************************)
(* node:path (POSIX).                                                      *)
(***************************************************************************)
Dot == <<".">>
DotDot == <<".", ".">>

\* the normalisation of path.resolve: "" and "." segments are dropped and
\* ".." removes the last kept segment, never climbing above "/"
RECURSIVE NormalizeSegs(_, _)
NormalizeSegs(stack, segs) ==
  IF segs = <<>> THEN stack
  ELSE LET s == Head(segs) IN
       IF s = <<>> \/ s = Dot THEN NormalizeSegs(stack, Tail(segs))
       ELSE IF s = DotDot
         THEN NormalizeSegs(IF stack = <<>> THEN <<>> ELSE SubSeq(stack, 1, Len(stack) - 1),
                            Tail(segs))
       ELSE NormalizeSegs(Append(stack, s), Tail(segs))

\* the components of an absolute path
Components(abs) == NormalizeSegs(<<>>, SplitOn(abs, Slash))

\* the absolute path with the given components
AbsOf(comps) == <<Slash>> \o JoinWith(comps, Slash)

\* path.resolve(baseAbs, relPath) for an absolute baseAbs
PathResolve(baseAbs, relPath) ==
  IF relPath # <<>> /\ relPath[1] = Slash
    THEN AbsOf(Components(relPath))
    ELSE AbsOf(NormalizeSegs(Components(baseAbs), SplitOn(relPath, Slash)))

(***************************************************************************)
(* safeJoin                                                                *)
(***************************************************************************)
\* the outcome of a call: a value, or the error thrown
Threw(msg) == [kind |-> "threw", error |-> msg]
Returned(v) == [kind |-> "returned", value |-> v]
NotCalled == [kind |-> "none"]

PathTraversalBlocked == Threw("Path traversal blocked")

SafeJoinUnchecked(root, rel) == Returned(PathResolve(root, rel))

SafeJoin(root, rel) ==
  LET resolved == PathResolve(root, rel) IN
  IF ~StartsWith(resolved, root) THEN PathTraversalBlocked ELSE Returned(resolved)

(***************************************************************************)
(* Containment of one absolute path in another, by path components: the    *)
(* path is the root itself or a descendant of it.                          *)
(***************************************************************************)
ContainedIn(abs, rootAbs) ==
  LET a == Components(abs)
      r == Components(rootAbs)
  IN Len(r) =< Len(a) /\ SubSeq(a, 1, Len(r)) = r

(***************************************************************************)
(* More of node:path (POSIX) and of the string helpers of epub.ts.         *)
(***************************************************************************)
\* the last index of s holding something other than ch, 0 when there is none
LastNot(s, ch) ==
  IF \E i \in 1..Len(s) : s[i] # ch
    THEN CHOOSE i \in 1..Len(s) : s[i] # ch /\ \A j \in (i + 1)..Len(s) : s[j] = ch
    ELSE 0

\* the last index of s up to hi holding ch and at least lo, 0 when there is none
LastIn(s, ch, lo, hi) ==
  IF \E i \in lo..hi : s[i] = ch
    THEN CHOOSE i \in lo..hi : s[i] = ch /\ \A j \in (i + 1)..hi : s[j] # ch
    ELSE 0

\* path.posix.dirname
PosixDirname(p) ==
  IF p = <<>> THEN Dot
  ELSE LET hasRoot == p[1] = Slash
           end == LastIn(p, Slash, 2, LastNot(p, Slash) - 1)
       IN IF end = 0 THEN (IF hasRoot THEN <<Slash>> ELSE Dot)
          ELSE IF hasRoot /\ end = 2 THEN <<Slash, Slash>>
          ELSE SubSeq(p, 1, end - 1)

\* path.posix.basename
PosixBasename(p) ==
  LET end == LastNot(p, Slash)
      start == LastIn(p, Slash, 1, end - 1)
  IN IF end = 0 THEN <<>> ELSE SubSeq(p, start + 1, end)

\* s.replace(/\.[^.]+$/, "")
StripExtension(s) ==
  LET k == LastIn(s, ".", 1, Len(s)) IN
  IF k = 0 \/ k = Len(s) THEN s ELSE SubSeq(s, 1, k - 1)

\* String(n) for a natural number n
RECURSIVE Decimal(_)
Decimal(n) ==
  LET digit == <<"0", "1", "2", "3", "4", "5", "6", "7", "8", "9">>[(n % 10) + 1] IN
  IF n < 10 THEN <<digit>> ELSE Decimal(n \div 10) \o <<digit>>

\* `Chapter ${n}`
ChapterN(n) == <<"C", "h", "a", "p", "t", "e", "r", " ">> \o Decimal(n)

\* s.replace(/<[^>]+>/g, " "): every "<", one or more characters other than
\* ">", and ">" becomes one blank, leftmost match first
RECURSIVE ReplaceTags(_)
ReplaceTags(s) ==
  IF s = <<>> THEN <<>>
  ELSE LET close == IF \E i \in 3..Len(s) : s[i] = ">"
                      THEN CHOOSE i \in 3..Len(s) :
                             s[i] = ">" /\ \A j \in 3..(i - 1) : s[j] # ">"
                      ELSE 0
       IN IF s[1] = "<" /\ Len(s) >= 3 /\ s[2] # ">" /\ close # 0
            THEN <<" ">> \o ReplaceTags(SubSeq(s, close + 1, Len(s)))
            ELSE <<s[1]>> \o ReplaceTags(Tail(s))

\* s.replace(/\s+/g, " ")
RECURSIVE CollapseBlanks(_)
CollapseBlanks(s) ==
  IF s = <<>> THEN <<>>
  ELSE IF s[1] = " " /\ Len(s) >= 2 /\ s[2] = " " THEN CollapseBlanks(Tail(s))
  ELSE <<s[1]>> \o CollapseBlanks(Tail(s))

\* String.prototype.trim
Trim(s) ==
  LET last == LastNot(s, " ") IN
  IF last = 0 THEN <<>>
  ELSE LET first == CHOOSE i \in 1..Len(s) : s[i] # " " /\ \A j \in 1..(i - 1) : s[j] = " "
       IN SubSeq(s, first, last)

StripTags(s) == Trim(CollapseBlanks(ReplaceTags(s)))

(***************************************************************************)
(* Values of the markup parser (fast-xml-parser): absent (undefined), a    *)
(* string, a number, an array of values or an object of keyed values.      *)
(***************************************************************************)
Absent == [k |-> "absent"]
Str(s) == [k |-> "str", v |-> s]
Num(n) == [k |-> "num", v |-> n]
Arr(items) == [k |-> "arr", v |-> items]
Obj(fields) == [k |-> "obj", v |-> fields]

\* o[key] of an object value
Field(o, key) == IF key \in DOMAIN o.v THEN o.v[key] ELSE Absent

\* a ?? b
Coalesce(a, b) == IF a = Absent THEN b ELSE a

IsString(x) == x.k = "str" /\ Len(x.v) > 0

\* !x
Falsy(x) == x = Absent \/ (x.k = "str" /\ x.v = <<>>) \/ (x.k = "num" /\ x.v = 0)

\* asText: a string value, or Absent for null
RECURSIVE AsText(_)
AsText(x) ==
  IF IsString(x) THEN x
  ELSE IF x.k = "arr" THEN (IF x.v = <<>> THEN Absent ELSE AsText(x.v[1]))
  ELSE IF x.k = "obj"
    THEN AsText(Coalesce(Field(x, "#text"),
                Coalesce(Field(x, "text"), Coalesce(Field(x, "#"), Field(x, "_")))))
  ELSE IF x = Absent THEN Absent
  ELSE IF x.k = "num" THEN Str(Decimal(x.v))
  ELSE Str(x.v)

\* Array.isArray(x) ? x : [x]
AsArray(x) == IF x.k = "arr" THEN x.v ELSE <<x>>

\* the value parser.parse gives for the text of an element: a text of digits
\* is delivered as a number, any other text as a string
DigitChars == {"0", "1", "2", "3", "4", "5", "6", "7", "8", "9"}

RECURSIVE NumberOf(_)
NumberOf(text) ==
  IF text = <<>> THEN 0
  ELSE 10 * NumberOf(SubSeq(text, 1, Len(text) - 1))
       + (CHOOSE n \in 0..9 : Decimal(n) = <<text[Len(text)]>>)

TagValue(text) ==
  IF text # <<>> /\ \A i \in 1..Len(text) : text[i] \in DigitChars
    THEN Num(NumberOf(text)) ELSE Str(text)

(***************************************************************************)
(* The unpacked package on disk: a function from absolute paths to files.  *)
(* A file is described by what the code reads out of its text: the parsed  *)
(* package document, the navPoint tree of a legacy TOC, the hyperlinks of  *)
(* a navigation document, the <title> and the image elements of a content  *)
(* document, and the writing-direction signals.                            *)
(***************************************************************************)
EmptyOpf ==
  [dcTitle |-> Absent, title |-> Absent, meta |-> Absent, items |-> Absent,
   itemrefs |-> Absent, toc |-> Absent, rtl |-> FALSE]

BlankFile ==
  [opf |-> EmptyOpf, navPoints |-> Absent, hasTocNav |-> FALSE, anchors |-> <<>>,
   title |-> Absent, images |-> <<>>, vertical |-> FALSE, rootfile |-> Absent]

Exists(files, abs) == abs \in DOMAIN files

\* readText of a path that is not on disk
ENOENT == Threw("ENOENT")

(***************************************************************************)
(* parseOpf: the manifest table and the spine.                             *)
(***************************************************************************)
\* the index of the entry of map with the given id, 0 when there is none
IndexOfId(map, id) ==
  IF \E i \in 1..Len(map) : map[i].id = id
    THEN CHOOSE i \in 1..Len(map) : map[i].id = id
    ELSE 0

\* manifestMap.set for every item with a non-empty id and href: a Map keeps
\* the place of the first insertion of a key and the value of the last
RECURSIVE ManifestMap(_, _)
ManifestMap(map, itemsArr) ==
  IF itemsArr = <<>> THEN map
  ELSE LET it == Head(itemsArr)
           id == IF it.k = "obj" THEN Field(it, "@_id") ELSE Absent
           href == IF it.k = "obj" THEN Field(it, "@_href") ELSE Absent
           entry == [id |-> id.v, href |-> href.v,
                     properties |-> Field(it, "@_properties"),
                     mediaType |-> Field(it, "@_media-type")]
           at == IndexOfId(map, id.v)
       IN IF IsString(id) /\ IsString(href)
            THEN ManifestMap(IF at = 0 THEN Append(map, entry)
                                        ELSE [map EXCEPT ![at] = entry],
                             Tail(itemsArr))
            ELSE ManifestMap(map, Tail(itemsArr))

\* manifestMap.get(id)?.href
HrefOfId(map, id) ==
  IF IndexOfId(map, id) = 0 THEN Absent ELSE Str(map[IndexOfId(map, id)].href)

\* opfDir: path.posix.dirname(opfRelPath), "" for "."
OpfDirOf(opfRelPath) ==
  LET opfDirRel == PosixDirname(opfRelPath) IN
  IF opfDirRel = Dot THEN <<>> ELSE opfDirRel

\* resolveHref and normalizeHref
NormalizeHref(opfDir, href) ==
  BackslashToSlash(IF opfDir # <<>> THEN opfDir \o <<Slash>> \o href ELSE href)

\* a variant that leaves the hrefs relative to the package document
SpineOfUnprefixed(map, opfDir, spineArr) ==
  LET idrefs == [i \in 1..Len(spineArr) |->
                   IF spineArr[i].k = "obj" THEN Field(spineArr[i], "@_idref") ELSE Absent]
      named == SelectSeq(idrefs, IsString)
      hrefs == [i \in 1..Len(named) |-> HrefOfId(map, named[i].v)]
      found == SelectSeq(hrefs, IsString)
  IN [i \in 1..Len(found) |-> BackslashToSlash(found[i].v)]

\* the spine: idref -> manifest href -> href relative to the package root
SpineOf(map, opfDir, spineArr) ==
  LET idrefs == [i \in 1..Len(spineArr) |->
                   IF spineArr[i].k = "obj" THEN Field(spineArr[i], "@_idref") ELSE Absent]
      named == SelectSeq(idrefs, IsString)
      hrefs == [i \in 1..Len(named) |-> HrefOfId(map, named[i].v)]
      found == SelectSeq(hrefs, IsString)
  IN [i \in 1..Len(found) |-> NormalizeHref(opfDir, found[i].v)]

(***************************************************************************)
(* extractChapters                                                         *)
(***************************************************************************)
Chapter(title, href) == [title |-> title, href |-> href]

\* walk: a navPoint with a non-empty string label and target is pushed, then
\* its children are walked in order
RECURSIVE WalkNavPoint(_, _)
RECURSIVE WalkNavPoints(_, _)
WalkNavPoint(np, opfDir) ==
  LET label == IF np.k = "obj" /\ Field(np, "navLabel").k = "obj"
                 THEN Field(Field(np, "navLabel"), "text") ELSE Absent
      src == IF np.k = "obj" /\ Field(np, "content").k = "obj"
               THEN Field(Field(np, "content"), "@_src") ELSE Absent
      children == IF np.k = "obj" THEN Coalesce(Field(np, "navPoint"), Arr(<<>>))
                  ELSE Arr(<<>>)
      own == IF IsString(label) /\ IsString(src)
               THEN <<Chapter(label.v, NormalizeHref(opfDir, src.v))>>
               ELSE <<>>
  IN own \o WalkNavPoints(AsArray(children), opfDir)

WalkNavPoints(arr, opfDir) ==
  IF arr = <<>> THEN <<>>
  ELSE (IF Falsy(Head(arr)) THEN <<>> ELSE WalkNavPoint(Head(arr), opfDir))
       \o WalkNavPoints(Tail(arr), opfDir)

\* tier 1 (EPUB2: spine @toc -> NCX): the entries, or the error of safeJoin
LegacyTocTier(files, root, opfDir, opf, map) ==
  LET tocId == opf.toc
      ncxHref == HrefOfId(map, tocId.v)
      ncxAbs == SafeJoin(root, IF opfDir # <<>> THEN opfDir \o <<Slash>> \o ncxHref.v
                               ELSE ncxHref.v)
  IN IF ~IsString(tocId) \/ ~IsString(ncxHref) THEN Returned(<<>>)
     ELSE IF ncxAbs.kind = "threw" THEN ncxAbs
     ELSE IF ~Exists(files, ncxAbs.value) THEN Returned(<<>>)
     ELSE Returned(WalkNavPoints(
            AsArray(Coalesce(files[ncxAbs.value].navPoints, Arr(<<>>))), opfDir))

\* v.properties.split(/\s+/).includes(word)
HasProperty(properties, word) ==
  /\ IsString(properties)
  /\ \E i \in 1..Len(SplitOn(properties.v, " ")) : SplitOn(properties.v, " ")[i] = word

W_nav == <<"n", "a", "v">>
W_cover_image == <<"c", "o", "v", "e", "r", "-", "i", "m", "a", "g", "e">>
W_cover == <<"c", "o", "v", "e", "r">>

\* the first value of the manifest table, in insertion order, carrying the property
FirstWithProperty(map, word) ==
  IF \E i \in 1..Len(map) : HasProperty(map[i].properties, word)
    THEN Str(map[CHOOSE i \in 1..Len(map) :
                   /\ HasProperty(map[i].properties, word)
                   /\ \A j \in 1..(i - 1) : ~HasProperty(map[j].properties, word)].href)
    ELSE Absent

\* the hyperlinks of the table-of-contents block, or of the whole document
\* when no block is marked, with a non-empty target and tag-stripped text
NavAnchors(file, opfDir) ==
  LET block == IF file.hasTocNav
                 THEN SelectSeq(file.anchors, LAMBDA a : a.inToc)
                 ELSE file.anchors
      kept == SelectSeq(block, LAMBDA a : Len(a.href) > 0 /\ Len(StripTags(a.text)) > 0)
  IN [i \in 1..Len(kept) |->
        Chapter(StripTags(kept[i].text), NormalizeHref(opfDir, kept[i].href))]

\* tier 2 (EPUB3: manifest item with properties="nav")
NavDocTier(files, root, opfDir, map) ==
  LET navHref == FirstWithProperty(map, W_nav)
      navAbs == SafeJoin(root, IF opfDir # <<>> THEN opfDir \o <<Slash>> \o navHref.v
                               ELSE navHref.v)
  IN IF ~IsString(navHref) THEN Returned(<<>>)
     ELSE IF navAbs.kind = "threw" THEN navAbs
     ELSE IF ~Exists(files, navAbs.value) THEN Returned(<<>>)
     ELSE Returned(NavAnchors(files[navAbs.value], opfDir))

\* the <title> of the document at href (fragment stripped), tag-stripped;
\* Absent when the path is blocked, the file unreadable or no <title> matches
PageTitle(files, root, cleanHref) ==
  LET abs == SafeJoin(root, cleanHref) IN
  IF abs.kind = "threw" \/ ~Exists(files, abs.value) THEN Absent
  ELSE IF files[abs.value].title = Absent THEN Absent
  ELSE Str(StripTags(files[abs.value].title.v))

\* the title derived from the file name, then `Chapter ${i + 1}`
NameTitle(href, i) ==
  LET base == PosixBasename(IF BeforeHash(href) # <<>> THEN BeforeHash(href) ELSE href)
  IN IF StripExtension(base) # <<>> THEN StripExtension(base) ELSE ChapterN(i)

\* a variant that numbers every document without a page title
PerDocumentTierNumbered(files, root, spine) ==
  [i \in 1..Len(spine) |->
     LET title == PageTitle(files, root, BeforeHash(spine[i])) IN
     Chapter(IF IsString(title) THEN title.v ELSE ChapterN(i), spine[i])]

\* tier 3: one entry per spine document
PerDocumentTier(files, root, spine) ==
  [i \in 1..Len(spine) |->
     LET title == PageTitle(files, root, BeforeHash(spine[i])) IN
     Chapter(IF IsString(title) THEN title.v ELSE NameTitle(spine[i], i), spine[i])]

\* a variant that consults the navigation document before the legacy TOC
ExtractChaptersNavFirst(files, root, opfDir, opf, map, spine) ==
  LET legacy == LegacyTocTier(files, root, opfDir, opf, map)
      nav == NavDocTier(files, root, opfDir, map)
  IN IF nav.kind = "threw" THEN nav
     ELSE IF nav.value # <<>> THEN nav
     ELSE IF legacy.kind = "threw" THEN legacy
     ELSE IF legacy.value # <<>> THEN legacy
     ELSE Returned(PerDocumentTier(files, root, spine))

ExtractChapters(files, root, opfDir, opf, map, spine) ==
  LET legacy == LegacyTocTier(files, root, opfDir, opf, map)
      nav == NavDocTier(files, root, opfDir, map)
  IN IF legacy.kind = "threw" THEN legacy
     ELSE IF legacy.value # <<>> THEN legacy
     ELSE IF nav.kind = "threw" THEN nav
     ELSE IF nav.value # <<>> THEN nav
     ELSE Returned(PerDocumentTier(files, root, spine))

(***************************************************************************)
(* mergeChaptersWithSpine                                                  *)
(***************************************************************************)
\* a variant in which a later title for the same document replaces the earlier
RECURSIVE TitleMapLastWins(_, _)
TitleMapLastWins(map, chapters) ==
  IF chapters = <<>> THEN map
  ELSE LET c == Head(chapters)
           base == BeforeHash(c.href)
       IN TitleMapLastWins(
            Append(SelectSeq(map, LAMBDA e : e.base # base), [base |-> base, title |-> c.title]),
            Tail(chapters))

\* titleMap: the first title recorded for each fragment-stripped href
RECURSIVE TitleMap(_, _)
TitleMap(map, chapters) ==
  IF chapters = <<>> THEN map
  ELSE LET c == Head(chapters)
           base == BeforeHash(c.href)
       IN IF (\A i \in 1..Len(map) : map[i].base # base) /\ c.title # <<>>
            THEN TitleMap(Append(map, [base |-> base, title |-> c.title]), Tail(chapters))
            ELSE TitleMap(map, Tail(chapters))

\* titleMap.get(base): the title, Absent when there is none
TitleMapGet(map, base) ==
  IF \E i \in 1..Len(map) : map[i].base = base
    THEN Str(map[CHOOSE i \in 1..Len(map) : map[i].base = base].title)
    ELSE Absent

MergeChaptersWithSpine(files, root, spine, chapters) ==
  LET titleMap == TitleMap(<<>>, chapters) IN
  [i \in 1..Len(spine) |->
     LET base == BeforeHash(spine[i])
         mapped == TitleMapGet(titleMap, base)
         page == PageTitle(files, root, base)
     IN Chapter(IF IsString(mapped) THEN mapped.v
                ELSE IF IsString(page) THEN page.v
                ELSE NameTitle(spine[i], i),
                spine[i])]

(***************************************************************************)
(* extractCoverHref, detectVertical                                        *)
(***************************************************************************)
\* findCoverIdFromMetadata: the content of the first <meta name="cover">
\* with a non-empty content
RECURSIVE FindCoverId(_)
FindCoverId(arr) ==
  IF arr = <<>> THEN Absent
  ELSE LET m == Head(arr) IN
       IF m.k = "obj" /\ Field(m, "@_name") = Str(W_cover) /\ IsString(Field(m, "@_content"))
         THEN Field(m, "@_content")
         ELSE FindCoverId(Tail(arr))

\* the first <img src=...> of the document if it has one, else its first
\* <image href=...> (or xlink:href)
FirstImage(file) ==
  LET imgs == SelectSeq(file.images, LAMBDA e : e.tag = "img")
      vecs == SelectSeq(file.images, LAMBDA e : e.tag = "image")
  IN IF imgs # <<>> THEN Str(imgs[1].ref)
     ELSE IF vecs # <<>> THEN Str(vecs[1].ref)
     ELSE Absent

\* a variant that consults the cover-image property before the metadata
ExtractCoverHrefFlaggedFirst(files, root, opfDir, opf, map, spine) ==
  LET coverId == FindCoverId(AsArray(Coalesce(opf.meta, Arr(<<>>))))
      byId == IF IsString(coverId) THEN HrefOfId(map, coverId.v) ELSE Absent
      flagged == FirstWithProperty(map, W_cover_image)
      abs == SafeJoin(root, BeforeHash(spine[1]))
      m == IF abs.kind = "threw" \/ ~Exists(files, abs.value) THEN Absent
           ELSE FirstImage(files[abs.value])
  IN IF flagged # Absent THEN Str(NormalizeHref(opfDir, flagged.v))
     ELSE IF IsString(byId) THEN Str(NormalizeHref(opfDir, byId.v))
     ELSE IF spine # <<>> /\ IsString(m) THEN Str(NormalizeHref(opfDir, m.v))
     ELSE Absent

ExtractCoverHref(files, root, opfDir, opf, map, spine) ==
  LET coverId == FindCoverId(AsArray(Coalesce(opf.meta, Arr(<<>>))))
      byId == IF IsString(coverId) THEN HrefOfId(map, coverId.v) ELSE Absent
      flagged == FirstWithProperty(map, W_cover_image)
      abs == SafeJoin(root, BeforeHash(spine[1]))
      m == IF abs.kind = "threw" \/ ~Exists(files, abs.value) THEN Absent
           ELSE FirstImage(files[abs.value])
  IN IF IsString(byId) THEN Str(NormalizeHref(opfDir, byId.v))
     ELSE IF flagged # Absent THEN Str(NormalizeHref(opfDir, flagged.v))
     ELSE IF spine # <<>> /\ IsString(m) THEN Str(NormalizeHref(opfDir, m.v))
     ELSE Absent

\* a variant that inspects the first spine document only
DetectVerticalFirstDocOnly(files, root, spine, opfRelPath) ==
  LET abs == SafeJoin(root, BeforeHash(spine[1])) IN
  IF spine = <<>> THEN FALSE
  ELSE abs.kind = "returned" /\ Exists(files, abs.value) /\ files[abs.value].vertical

DetectVertical(files, root, spine, opfRelPath) ==
  LET abs == SafeJoin(root, BeforeHash(spine[1]))
      opfAbs == SafeJoin(root, opfRelPath)
  IN IF spine = <<>> THEN FALSE
     ELSE \/ abs.kind = "returned" /\ Exists(files, abs.value) /\ files[abs.value].vertical
          \/ opfAbs.kind = "returned" /\ Exists(files, opfAbs.value)
               /\ files[opfAbs.value].opf.rtl

(***************************************************************************)
(* parseOpf                                                                *)
(***************************************************************************)
Untitled == <<"U", "n", "t", "i", "t", "l", "e", "d">>

EmptySpine == Threw("Spine is empty (could not resolve itemrefs).")

TitleOf(opf) ==
  LET titleRaw == Coalesce(opf.dcTitle, Coalesce(opf.title, Str(Untitled)))
  IN Coalesce(AsText(titleRaw), Str(Untitled)).v

ParseOpf(files, root, opfRelPath) ==
  LET opfAbs == SafeJoin(root, opfRelPath)
      opf == files[opfAbs.value].opf
      manifestMap == ManifestMap(<<>>, AsArray(Coalesce(opf.items, Arr(<<>>))))
      opfDir == OpfDirOf(opfRelPath)
      spine == SpineOf(manifestMap, opfDir, AsArray(Coalesce(opf.itemrefs, Arr(<<>>))))
      extracted == ExtractChapters(files, root, opfDir, opf, manifestMap, spine)
      chapters == IF Len(extracted.value) < Len(spine)
                    THEN MergeChaptersWithSpine(files, root, spine, extracted.value)
                    ELSE extracted.value
  IN IF opfAbs.kind = "threw" THEN opfAbs
     ELSE IF ~Exists(files, opfAbs.value) THEN ENOENT
     ELSE IF spine = <<>> THEN EmptySpine
     ELSE IF extracted.kind = "threw" THEN extracted
     ELSE Returned([title |-> TitleOf(opf),
                    opfPath |-> opfRelPath,
                    spine |-> spine,
                    chapters |-> chapters,
                    coverHref |-> ExtractCoverHref(files, root, opfDir, opf, manifestMap, spine),
                    vertical |-> DetectVertical(files, root, spine, opfRelPath)])

(***************************************************************************)
(* findOpfPath                                                             *)
(***************************************************************************)
UpperCase ==
  <<"A", "B", "C", "D", "E", "F", "G", "H", "I", "J", "K", "L", "M",
    "N", "O", "P", "Q", "R", "S", "T", "U", "V", "W", "X", "Y", "Z">>
LowerCase ==
  <<"a", "b", "c", "d", "e", "f", "g", "h", "i", "j", "k", "l", "m",
    "n", "o", "p", "q", "r", "s", "t", "u", "v", "w", "x", "y", "z">>

\* String.prototype.toLowerCase
ToLowerCase(s) ==
  [i \in 1..Len(s) |->
     IF \E k \in 1..Len(UpperCase) : UpperCase[k] = s[i]
       THEN LowerCase[CHOOSE k \in 1..Len(UpperCase) : UpperCase[k] = s[i]]
       ELSE s[i]]

Ext_opf == <<".", "o", "p", "f">>
N_META_INF == <<"M", "E", "T", "A", "-", "I", "N", "F">>
N_container_xml == <<"c", "o", "n", "t", "a", "i", "n", "e", "r", ".", "x", "m", "l">>

\* the names of the entries of directory dir: what lies directly below it
EntryNames(fs, dir) ==
  LET d == Components(dir) IN
  {Components(f)[Len(d) + 1] :
     f \in {g \in DOMAIN fs : Len(Components(g)) > Len(d)
                              /\ SubSeq(Components(g), 1, Len(d)) = d}}

\* e.isDirectory(), e.isFile()
IsDirectory(fs, abs) == EntryNames(fs, abs) # {}
IsFile(fs, abs) == abs \in DOMAIN fs

\* fs.readdir(dir): the entries of dir in the order the file system lists
\* them, which is the order the names have in the sequence order
ReadDir(fs, dir, order) == SelectSeq(order, LAMBDA name : name \in EntryNames(fs, dir))

\* walk: the package documents below dir, in the order they are met
RECURSIVE WalkDir(_, _, _)
RECURSIVE WalkEntries(_, _, _, _)
WalkDir(fs, dir, order) == WalkEntries(fs, dir, ReadDir(fs, dir, order), order)

WalkEntries(fs, dir, entries, order) ==
  IF entries = <<>> THEN <<>>
  ELSE LET p == dir \o <<Slash>> \o Head(entries) IN
       (IF IsDirectory(fs, p) THEN WalkDir(fs, p, order)
        ELSE IF IsFile(fs, p) /\ EndsWith(ToLowerCase(Head(entries)), Ext_opf) THEN <<p>>
        ELSE <<>>)
       \o WalkEntries(fs, dir, Tail(entries), order)

\* path.relative(from, to) for a path to below the directory from
PathRelative(from, to) ==
  JoinWith(SubSeq(Components(to), Len(Components(from)) + 1, Len(Components(to))), Slash)

OpfNotFound == Threw("OPF not found")
FullPathNotFound == Threw("OPF full-path not found in container.xml")

\* a variant that scans the directory when the descriptor names no root-file
FindOpfPathScanFallback(fs, root, order) ==
  LET containerPath == root \o <<Slash>> \o N_META_INF \o <<Slash>> \o N_container_xml
      opfs == WalkDir(fs, root, order)
      rootfile == fs[containerPath].rootfile
      first == IF rootfile.k = "arr" THEN rootfile.v[1] ELSE rootfile
      fullPath == IF first.k = "obj" THEN Field(first, "@_full-path") ELSE Absent
  IN IF Exists(fs, containerPath) /\ ~Falsy(fullPath)
       THEN Returned(BackslashToSlash(fullPath.v))
       ELSE IF opfs = <<>> THEN OpfNotFound
            ELSE Returned(BackslashToSlash(PathRelative(root, opfs[1])))

FindOpfPath(fs, root, order) ==
  LET containerPath == root \o <<Slash>> \o N_META_INF \o <<Slash>> \o N_container_xml
      opfs == WalkDir(fs, root, order)
      rootfile == fs[containerPath].rootfile
      first == IF rootfile.k = "arr" THEN rootfile.v[1] ELSE rootfile
      fullPath == IF first.k = "obj" THEN Field(first, "@_full-path") ELSE Absent
  IN IF ~Exists(fs, containerPath)
       THEN IF opfs = <<>> THEN OpfNotFound
            ELSE Returned(BackslashToSlash(PathRelative(root, opfs[1])))
       ELSE IF Falsy(fullPath) THEN FullPathNotFound
            ELSE Returned(BackslashToSlash(fullPath.v))

(***************************************************************************)
(* db.ts: the tables of books.db and the statements on them.  A table with *)
(* a primary key is a function from the key to the row; chapters are kept  *)
(* per book in idx order; bookmarks carry their AUTOINCREMENT id.          *)
(***************************************************************************)
EmptyDb ==
  [books |-> <<>>, chapters |-> <<>>, progress |-> <<>>, bookmarks |-> {},
   lastBookmarkId |-> 0]

\* f without the key k
Without(f, k) == [x \in DOMAIN f \ {k} |-> f[x]]

\* a variant without ON DELETE CASCADE
DeleteBookOnly(d, id) == [d EXCEPT !.books = Without(d.books, id)]

\* DELETE FROM books WHERE id = ?, with ON DELETE CASCADE on the other tables
DeleteBook(d, id) ==
  [d EXCEPT !.books = Without(d.books, id),
            !.chapters = Without(d.chapters, id),
            !.progress = Without(d.progress, id),
            !.bookmarks = {b \in d.bookmarks : b.bookId # id}]

\* upsertTx: delete the book, insert it, delete and insert its chapters
UpsertBook(d, book, chapters) ==
  LET cleared == DeleteBook(d, book.id) IN
  [cleared EXCEPT !.books = (book.id :> book) @@ cleared.books,
                  !.chapters = (book.id :> chapters) @@ cleared.chapters]

\* the rows in descending order of createdAt
ByCreatedAtDesc(rows) ==
  CHOOSE s \in [1..Cardinality(rows) -> rows] :
    /\ \A i, j \in 1..Cardinality(rows) : i < j => s[i].createdAt >= s[j].createdAt
    /\ \A r \in rows : \E i \in 1..Cardinality(rows) : s[i] = r

\* listBooks: SELECT ... ORDER BY b.createdAt DESC
ListBooks(d) ==
  ByCreatedAtDesc(
    {[id |-> id, title |-> d.books[id].title, createdAt |-> d.books[id].createdAt,
      coverHref |-> d.books[id].coverHref, lastOpenedAt |-> d.books[id].lastOpenedAt,
      chapterCount |-> IF id \in DOMAIN d.chapters THEN Len(d.chapters[id]) ELSE 0] :
       id \in DOMAIN d.books})

(***************************************************************************)
(* index.ts: POST /api/books/import.                                       *)
(***************************************************************************)
Ok(body) == [status |-> 200, body |-> body]
Failed(status, error) == [status |-> status, error |-> error]

\* a variant that records the book whether or not the parse succeeded
UpsertImportedAlways(d, bookId, parsed, now) ==
  UpsertBook(d,
    [id |-> bookId,
     title |-> IF parsed.kind = "returned" THEN parsed.value.title ELSE <<>>,
     opfPath |-> IF parsed.kind = "returned" THEN parsed.value.opfPath ELSE <<>>,
     coverHref |-> IF parsed.kind = "returned" THEN parsed.value.coverHref ELSE Absent,
     lastOpenedAt |-> Absent, createdAt |-> now],
    IF parsed.kind = "returned" THEN parsed.value.chapters ELSE <<>>)

\* db.upsertBook of the import handler, reached only when findOpfPath and
\* parseOpf returned
UpsertImported(d, bookId, parsed, now) ==
  IF parsed.kind # "returned" THEN d
  ELSE UpsertBook(d,
         [id |-> bookId, title |-> parsed.value.title, opfPath |-> parsed.value.opfPath,
          coverHref |-> parsed.value.coverHref, lastOpenedAt |-> Absent, createdAt |-> now],
         parsed.value.chapters)

(***************************************************************************)
(* db.ts: progress and bookmarks.                                          *)
(***************************************************************************)
\* FOREIGN KEY(bookId) REFERENCES books(id)
SqliteConstraint == Threw("FOREIGN KEY constraint failed")

\* upsertProgress: INSERT ... ON CONFLICT(bookId) DO UPDATE
UpsertProgress(d, p) ==
  IF p.bookId \notin DOMAIN d.books THEN SqliteConstraint
  ELSE Returned([d EXCEPT !.progress = (p.bookId :> p) @@ d.progress])

\* getProgress: the row, Absent when there is none
GetProgress(d, bookId) ==
  IF bookId \in DOMAIN d.progress THEN d.progress[bookId] ELSE Absent

\* addBookmark: the row gets the next AUTOINCREMENT id
AddBookmark(d, b) ==
  IF b.bookId \notin DOMAIN d.books THEN SqliteConstraint
  ELSE Returned([d EXCEPT !.bookmarks = d.bookmarks \cup
                             {[id |-> d.lastBookmarkId + 1] @@ b},
                          !.lastBookmarkId = d.lastBookmarkId + 1])

\* listBookmarks: SELECT ... WHERE bookId = ? ORDER BY id DESC
ListBookmarks(d, bookId) ==
  LET rows == {b \in d.bookmarks : b.bookId = bookId} IN
  CHOOSE s \in [1..Cardinality(rows) -> rows] :
    /\ \A i, j \in 1..Cardinality(rows) : i < j => s[i].id > s[j].id
    /\ \A r \in rows : \E i \in 1..Cardinality(rows) : s[i] = r

\* deleteBookmark
DeleteBookmark(d, bookId, id) ==
  [d EXCEPT !.bookmarks = {b \in d.bookmarks : ~(b.bookId = bookId /\ b.id = id)}]

\* markOpened: UPDATE books SET lastOpenedAt = ? WHERE id = ?
MarkOpened(d, bookId, ts) ==
  IF bookId \in DOMAIN d.books THEN [d EXCEPT !.books[bookId].lastOpenedAt = Num(ts)] ELSE d

(***************************************************************************)
(* The reader page (web/src/pages): its refs, onMounted, onLoad.           *)
(***************************************************************************)
T_Loading == <<"L", "o", "a", "d", "i", "n", "g", ".", ".", ".">>
T_Load_failed == <<"L", "o", "a", "d", " ", "f", "a", "i", "l", "e", "d">>

ReaderSetup ==
  [bookId |-> "", title |-> T_Loading, spine |-> <<>>, chapters |-> <<>>, idx |-> 0,
   currentHref |-> <<>>, bookmarks |-> <<>>, pendingScroll |-> Absent,
   scroll |-> [x |-> 0, y |-> 0], error |-> ""]

\* list.findIndex((c) => c.href.split("#")[0] === base), counted from 0;
\* -1 when there is none
FindIndex(list, base) ==
  IF \E i \in 1..Len(list) : BeforeHash(list[i].href) = base
    THEN (CHOOSE i \in 1..Len(list) :
            /\ BeforeHash(list[i].href) = base
            /\ \A j \in 1..(i - 1) : BeforeHash(list[j].href) # base) - 1
    ELSE -1

\* the position onMounted restores from a bookmark or progress row
Restore(r, row) ==
  LET i == FindIndex(r.chapters, BeforeHash(row.href)) IN
  [r EXCEPT !.idx = IF i >= 0 THEN i ELSE r.idx,
            !.pendingScroll = [x |-> row.scrollX, y |-> row.scrollY]]

\* loadCurrent: chapters[idx]?.href ?? spine[idx]
LoadCurrent(r) ==
  LET href == IF r.idx + 1 \in 1..Len(r.chapters) THEN r.chapters[r.idx + 1].href
              ELSE IF r.idx + 1 \in 1..Len(r.spine) THEN r.spine[r.idx + 1]
              ELSE <<>>
  IN IF href = <<>> THEN r ELSE [r EXCEPT !.currentHref = href]

\* onMounted: the latest bookmark if there is one, else the progress row
RestoreChoice(r, p, bms) ==
  IF bms # <<>> THEN Restore(r, bms[1])
  ELSE IF p # Absent THEN Restore(r, p)
  ELSE r

\* onMounted, after getManifest returned m
Mounted(bookId, m, p, bms) ==
  LET chapters == IF m.chapters # <<>> THEN m.chapters
                  ELSE [i \in 1..Len(m.spine) |-> Chapter(ChapterN(i), m.spine[i])]
      r == [ReaderSetup EXCEPT !.bookId = bookId, !.title = m.title, !.spine = m.spine,
                               !.chapters = chapters, !.bookmarks = bms]
  IN LoadCurrent(RestoreChoice(r, p, bms))

(***************************************************************************)
(* Inputs of the path guard.                                               *)
(***************************************************************************)
N_etc == <<"e", "t", "c">>
N_et == <<"e", "t">>
N_passwd == <<"p", "a", "s", "s", "w", "d">>
N_pas == <<"p", "a", "s">>

DirNames == {N_etc, N_et, N_passwd, N_pas}

\* absolute, normalised directories, as path.join and path.resolve give them
RootDirs == {AbsOf(c) : c \in SeqsUpTo(DirNames, MaxRootDepth)}

RelSegs == DirNames \cup {DotDot, Dot, <<>>}

EtcPasswdRel == JoinWith(<<DotDot, DotDot, N_etc, N_passwd>>, Slash)

RelPaths == {JoinWith(s, Slash) : s \in SeqsUpTo(RelSegs, MaxRelLen)} \cup {EtcPasswdRel}

(***************************************************************************)
(* Inputs of the parser: a package unpacked under BookRoot.                *)
(***************************************************************************)
BookRoot == <<Slash, "b">>

\* the file of the package at the root-relative path rel
At(rel) == BookRoot \o <<Slash>> \o rel

\* an element whose attributes and children are the given keyed values,
\* absent ones left out
Element(fields) ==
  Obj([key \in {k \in DOMAIN fields : fields[k] # Absent} |-> fields[key]])

\* zero children: no key; one child: the child; several: an array
Children(nodes) ==
  IF nodes = <<>> THEN Absent ELSE IF Len(nodes) = 1 THEN nodes[1] ELSE Arr(nodes)

Item(id, href, properties) ==
  Element(("@_id" :> Str(id)) @@ ("@_href" :> Str(href)) @@ ("@_properties" :> properties))

ItemRef(idref) == Element("@_idref" :> Str(idref))

NavPoint(label, src, children) ==
  Element(("navLabel" :> (IF label = Absent THEN Absent ELSE Element("text" :> label)))
          @@ ("content" :> (IF src = Absent THEN Absent ELSE Element("@_src" :> src)))
          @@ ("navPoint" :> Children(children)))

P_opf == <<"p", ".", "o", "p", "f">>
O_p_opf == <<"O", Slash>> \o P_opf
H_a == <<"a", ".", "x">>
H_a_f == <<"a", ".", "x", "#", "f">>
H_b == <<"b", ".", "x">>
H_dot == <<".", "x">>
H_escape == <<".", ".", Slash, ".", ".", Slash, "e", ".", "x">>
H_ncx == <<"t", ".", "n", "c", "x">>
H_nav == <<"n", ".", "x">>

\* the content documents a spine is drawn from: a.x has a <title>, b.x has
\* an empty <title>, and .x is not on disk and has an empty base name
SpineDocs == {H_a, H_b, H_dot}

\* the navPoints a legacy TOC is drawn from, as <<label, target>>
TocEntries ==
  { <<Str(<<"L", "1">>), Str(H_a)>>,
    <<Str(<<"L", "2">>), Str(H_a_f)>>,
    <<Str(<<"L", "3">>), Str(H_b)>>,
    <<Absent, Str(H_b)>>,
    <<Str(<<"L", "4">>), Str(H_escape)>> }

\* the navPoint tree of the entries: all at the top level, or each the
\* only child of the one before
RECURSIVE NestedNavPoints(_)
NestedNavPoints(entries) ==
  IF entries = <<>> THEN <<>>
  ELSE <<NavPoint(Head(entries)[1], Head(entries)[2], NestedNavPoints(Tail(entries)))>>

NavMapOf(entries, nested) ==
  IF nested THEN Children(NestedNavPoints(entries))
  ELSE Children([i \in 1..Len(entries) |-> NavPoint(entries[i][1], entries[i][2], <<>>)])

NavTitles == {<<"N", "1">>, <<"N", "2">>}

NavFile ==
  [BlankFile EXCEPT !.anchors =
     << [href |-> H_a, text |-> <<"N", "1">>, inToc |-> TRUE],
        [href |-> H_b, text |-> <<"<", "i", ">", "N", "2", "<", "/", "i", ">">>, inToc |-> TRUE] >>]

DocA == [BlankFile EXCEPT !.title = Str(<<"T", "<", "b", ">", "A", "<", "/", "b", ">">>)]
DocB == [BlankFile EXCEPT !.title = Str(<<" ">>)]

\* a package document OEBPS-style in directory O, with a legacy TOC of the
\* given entries and, when hasNav, a navigation document
TocPackage(spineDocs, entries, nested, hasNav) ==
  LET opf == [EmptyOpf EXCEPT
                !.dcTitle = Str(<<"B", "k">>),
                !.items = Children(
                   << Item(<<"n">>, H_ncx, Absent),
                      Item(H_a, H_a, Absent),
                      Item(H_b, H_b, Absent),
                      Item(H_dot, H_dot, Absent) >>
                   \o (IF hasNav THEN <<Item(<<"v">>, H_nav, Str(W_nav))>> ELSE <<>>)),
                !.itemrefs = Children([i \in 1..Len(spineDocs) |-> ItemRef(spineDocs[i])]),
                !.toc = Str(<<"n">>)]
  IN (At(O_p_opf) :> [BlankFile EXCEPT !.opf = opf])
     @@ (At(<<"O", Slash>> \o H_ncx) :> [BlankFile EXCEPT !.navPoints = NavMapOf(entries, nested)])
     @@ (At(<<"O", Slash>> \o H_a) :> DocA)
     @@ (At(<<"O", Slash>> \o H_b) :> DocB)
     @@ (IF hasNav THEN At(<<"O", Slash>> \o H_nav) :> NavFile ELSE <<>>)

H_cover == <<"c", ".", "p", "n", "g">>
H_sub_a == <<"t", Slash>> \o H_a

\* where the first spine document lies: beside the package document, in a
\* directory below it, or outside the package root
FirstDocHrefs == {H_a, H_sub_a, H_escape}

\* the image elements a content document is drawn from
ImageElements ==
  { [tag |-> "img", ref |-> <<"r", ".", "p", "n", "g">>],
    [tag |-> "image", ref |-> <<"v", ".", "s", "v", "g">>],
    [tag |-> "img", ref |-> <<".", ".", Slash, "i", ".", "p", "n", "g">>] }

\* <meta name="cover">: none, one naming the image item, one naming an id
\* the manifest does not have, one with an empty content
CoverMetas ==
  { Absent,
    Element(("@_name" :> Str(W_cover)) @@ ("@_content" :> Str(<<"c">>))),
    Element(("@_name" :> Str(W_cover)) @@ ("@_content" :> Str(<<"z">>))),
    Element(("@_name" :> Str(W_cover)) @@ ("@_content" :> Str(<<>>))) }

\* a package whose first spine document carries the given image elements
CoverPackage(opfRelPath, docHref, images, coverMeta, flagged) ==
  LET opf == [EmptyOpf EXCEPT
                !.dcTitle = Str(<<"B", "k">>),
                !.meta = coverMeta,
                !.items = Children(
                   << Item(<<"d">>, docHref, Absent),
                      Item(<<"c">>, H_cover,
                           IF flagged THEN Str(W_cover_image) ELSE Absent) >>),
                !.itemrefs = Children(<<ItemRef(<<"d">>)>>)]
  IN (At(opfRelPath) :> [BlankFile EXCEPT !.opf = opf])
     @@ (PathResolve(BookRoot, NormalizeHref(OpfDirOf(opfRelPath), docHref))
           :> [BlankFile EXCEPT !.images = images])

\* the values the markup parser gives for a title element, to a nesting depth
TitleLeaves == {Absent, Str(<<>>), Str(<<"T">>), Num(0), Num(7)}

RECURSIVE TitleNodes(_)
TitleNodes(depth) ==
  IF depth = 0 THEN TitleLeaves
  ELSE LET sub == TitleNodes(depth - 1) IN
       sub
       \cup {Arr(items) : items \in [1..1 -> sub \ {Absent}] \cup [1..2 -> sub \ {Absent}]}
       \cup {Element(("#text" :> a) @@ ("text" :> b) @@ ("@_id" :> Str(<<"i">>))) :
               a \in sub, b \in {Absent, Str(<<"X">>)}}

\* a one-document package with the given <dc:title> and <title>
TitlePackage(dcTitle, title) ==
  LET opf == [EmptyOpf EXCEPT
                !.dcTitle = dcTitle,
                !.title = title,
                !.items = Children(<<Item(<<"d">>, H_a, Absent)>>),
                !.itemrefs = Children(<<ItemRef(<<"d">>)>>)]
  IN (At(P_opf) :> [BlankFile EXCEPT !.opf = opf]) @@ (At(H_a) :> DocA)

B_opf == <<"b", ".", "o", "p", "f">>
C_opf == <<"c", ".", "o", "p", "f">>
A_D_OPF == <<"a", Slash, "D", ".", "O", "P", "F">>

\* the places a package may hold a package document: two in the root and
\* one, with an upper-case extension, in a directory listed before them
OpfPlaces == {B_opf, C_opf, A_D_OPF}

\* META-INF/container.xml: none, one rootfile, two rootfiles, no rootfile
Rootfile(fullPath) == Element("@_full-path" :> Str(fullPath))

Containers ==
  { Absent,
    Rootfile(C_opf),
    Arr(<<Rootfile(B_opf), Rootfile(C_opf)>>),
    Element("@_media-type" :> Str(<<"x">>)) }

\* a package document of one content document, titled by its own path
OpfFileAt(rel) ==
  [BlankFile EXCEPT !.opf =
     [EmptyOpf EXCEPT
        !.dcTitle = Str(rel),
        !.items = Children(<<Item(<<"d">>, H_a, Absent)>>),
        !.itemrefs = Children(<<ItemRef(<<"d">>)>>)]]

\* a package with package documents at the given places, a content
\* document n.x in the root, and the given container descriptor
ScanPackage(places, container) ==
  [abs \in {At(rel) : rel \in places} |-> OpfFileAt(PathRelative(BookRoot, abs))]
  @@ (At(H_nav) :> DocA)
  @@ (IF container = Absent THEN <<>>
      ELSE At(N_META_INF \o <<Slash>> \o N_container_xml)
             :> [BlankFile EXCEPT !.rootfile = container])

\* every name in the package
AllNames(fs) ==
  UNION {{Components(f)[i] : i \in (Len(Components(BookRoot)) + 1)..Len(Components(f))} :
           f \in DOMAIN fs}

\* the orders in which a file system may list the names
RECURSIVE ListingOrders(_)
ListingOrders(names) ==
  IF names = {} THEN {<<>>}
  ELSE UNION {{<<n>> \o rest : rest \in ListingOrders(names \ {n})} : n \in names}

\* what the first spine document may be: not on disk, on disk without a
\* vertical-writing or right-to-left signal, on disk with one
DocStates == {"missing", "plain", "signal"}

DocIn(state) == [BlankFile EXCEPT !.vertical = (state = "signal")]

\* a package of two content documents: the first at firstHref in the given
\* state, the second, b.x, with or without a signal of its own; the package
\* document declares right-to-left page progression when rtl
DirectionPackage(opfRelPath, firstHref, firstDoc, secondSignal, rtl) ==
  LET opf == [EmptyOpf EXCEPT
                !.dcTitle = Str(<<"B", "k">>),
                !.items = Children(<<Item(<<"d">>, firstHref, Absent),
                                     Item(<<"e">>, H_b, Absent)>>),
                !.itemrefs = Children(<<ItemRef(<<"d">>), ItemRef(<<"e">>)>>),
                !.rtl = rtl]
      opfDir == OpfDirOf(opfRelPath)
  IN (At(opfRelPath) :> [BlankFile EXCEPT !.opf = opf])
     @@ (IF firstDoc = "missing" THEN <<>>
         ELSE PathResolve(BookRoot, BeforeHash(NormalizeHref(opfDir, firstHref)))
                :> DocIn(firstDoc))
     @@ (At(NormalizeHref(opfDir, H_b))
           :> DocIn(IF secondSignal THEN "signal" ELSE "plain"))

H_c == <<"c", ".", "x">>
H_ncx_escape == <<".", ".", Slash, ".", ".", Slash>> \o H_ncx
H_nav_escape == <<".", ".", Slash, ".", ".", Slash>> \o H_nav

\* the content documents of a package whose tiers may fail: a.x, with and
\* without a fragment, b.x with a blank <title>, .x and c.x not on disk,
\* and a document outside the package root
TierDocs == {H_a, H_a_f, H_b, H_dot, H_c, H_escape}

\* what the package says of a TOC document: nothing, a document without
\* entries, a document that is not on disk, a document outside the root
TocStates == {"none", "empty", "missing", "escape"}

\* the same for the navigation document, which may also carry hyperlinks
NavStates == {"none", "empty", "missing", "escape", "links"}

\* a document lying outside the package root
OutsideDoc ==
  [BlankFile EXCEPT !.title = Str(<<"E">>), !.vertical = TRUE,
                    !.images = <<[tag |-> "img", ref |-> <<"r", ".", "p", "n", "g">>]>>]

\* a package document in directory O with the given spine, legacy TOC and
\* navigation document
TierPackage(spineDocs, toc, nav) ==
  LET docs == {spineDocs[i] : i \in 1..Len(spineDocs)}
      items ==
        (IF toc = "none" THEN <<>>
         ELSE <<Item(<<"n">>, IF toc = "escape" THEN H_ncx_escape ELSE H_ncx, Absent)>>)
        \o (IF nav = "none" THEN <<>>
            ELSE <<Item(<<"v">>, IF nav = "escape" THEN H_nav_escape ELSE H_nav, Str(W_nav))>>)
        \o [i \in 1..Len(spineDocs) |-> Item(spineDocs[i], spineDocs[i], Absent)]
      opf == [EmptyOpf EXCEPT
                !.dcTitle = Str(<<"B", "k">>),
                !.items = Children(items),
                !.itemrefs = Children([i \in 1..Len(spineDocs) |-> ItemRef(spineDocs[i])]),
                !.toc = IF toc = "none" THEN Absent ELSE Str(<<"n">>)]
  IN (At(O_p_opf) :> [BlankFile EXCEPT !.opf = opf])
     @@ (At(<<"O", Slash>> \o H_a) :> DocA)
     @@ (At(<<"O", Slash>> \o H_b) :> DocB)
     @@ (PathResolve(BookRoot, <<"O", Slash>> \o H_escape) :> OutsideDoc)
     @@ (IF toc = "empty" THEN At(<<"O", Slash>> \o H_ncx) :> BlankFile ELSE <<>>)
     @@ (IF toc = "escape"
           THEN PathResolve(BookRoot, <<"O", Slash>> \o H_ncx_escape)
                  :> [BlankFile EXCEPT !.navPoints =
                        NavPoint(Str(<<"L", "1">>), Str(H_a), <<>>)]
           ELSE <<>>)
     @@ (IF nav = "empty" THEN At(<<"O", Slash>> \o H_nav) :> BlankFile ELSE <<>>)
     @@ (IF nav = "links" THEN At(<<"O", Slash>> \o H_nav) :> NavFile ELSE <<>>)
     @@ (IF nav = "escape"
           THEN PathResolve(BookRoot, <<"O", Slash>> \o H_nav_escape) :> NavFile
           ELSE <<>>)

\* the identifiers nanoid() may give a book
BookIds == {"k1", "k2"}

\* the packages uploaded for import: package documents in the root found
\* by the scan or named by the container descriptor, a descriptor without a
\* root-file path, one naming a file that is not there, a package with an
\* empty spine and one whose legacy TOC lies outside the package root
Uploads ==
  { ScanPackage({B_opf}, Absent),
    ScanPackage({B_opf, C_opf}, Absent),
    ScanPackage({}, Absent),
    ScanPackage({B_opf}, Element("@_media-type" :> Str(<<"x">>))),
    ScanPackage({B_opf}, Rootfile(C_opf)),
    ScanPackage({C_opf}, Rootfile(C_opf)),
    TierPackage(<<>>, "none", "none"),
    TierPackage(<<H_a>>, "escape", "none"),
    TierPackage(<<H_a, H_b>>, "none", "none") }

\* the listings findOpfPath may read: none when the container descriptor is
\* there, for the walk is not entered
ListingsRead(fs) ==
  IF Exists(fs, At(N_META_INF \o <<Slash>> \o N_container_xml)) THEN {<<>>}
  ELSE ListingOrders(AllNames(fs))

\* the books a library holds when the reader is opened: three documents,
\* and two chapters in one document
ReaderBooks ==
  { ParseOpf(TierPackage(<<H_a, H_b, H_c>>, "none", "none"), BookRoot, O_p_opf).value,
    ParseOpf(TierPackage(<<H_a, H_a_f>>, "none", "none"), BookRoot, O_p_opf).value }

\* the scroll offsets a position may have
ScrollOffsets == {[x |-> 0, y |-> 0], [x |-> 0, y |-> 7], [x |-> 3, y |-> 0]}

\* a library of the one book k1
LibraryOf(m) ==
  UpsertBook(EmptyDb,
    [id |-> "k1", title |-> m.title, opfPath |-> m.opfPath, coverHref |-> m.coverHref,
     lastOpenedAt |-> Absent, createdAt |-> 0],
    m.chapters)

H_back == <<"s", "\\", "w", ".", "x">>

\* the manifests a spine is resolved through: items with a backslash and
\* with an empty href, an id declared twice, a single item, no item
ManifestVariants ==
  { Children(<<Item(<<"d">>, H_a, Absent), Item(<<"e">>, H_b, Absent),
               Item(<<"w">>, H_back, Absent), Item(<<"m">>, <<>>, Absent)>>),
    Children(<<Item(<<"d">>, H_a, Absent), Item(<<"d">>, H_c, Absent),
               Item(<<"e">>, H_b, Absent)>>),
    Children(<<Item(<<"d">>, H_a, Absent)>>),
    Absent }

\* the item-references a spine is drawn from: naming an item, an item with
\* an empty href, no item; without idref; an empty element
RefKinds ==
  { ItemRef(<<"d">>), ItemRef(<<"e">>), ItemRef(<<"w">>), ItemRef(<<"m">>),
    ItemRef(<<"z">>), Element("@_linear" :> Str(<<"n", "o">>)), Str(<<>>) }

SpinePackage(opfRelPath, items, refs) ==
  LET opf == [EmptyOpf EXCEPT !.dcTitle = Str(<<"B", "k">>),
                              !.items = items,
                              !.itemrefs = Children(refs)]
  IN (At(opfRelPath) :> [BlankFile EXCEPT !.opf = opf])
     @@ (At(NormalizeHref(OpfDirOf(opfRelPath), H_a)) :> DocA)

\* the shapes of a navPoint forest of n nodes: the depth of each node, the
\* nodes listed in document order
DepthLists(n) ==
  {d \in [1..n -> 0..(n - 1)] :
     /\ n > 0 => d[1] = 0
     /\ \A i \in 1..(n - 1) : d[i + 1] =< d[i] + 1}

\* what a navPoint of the legacy TOC may lack or carry: nothing missing, no
\* <navLabel>, no <content>, or a label of digits
NodeStates == {"full", "unlabelled", "untargeted", "digits"}

\* the label and the target of node i of a legacy TOC document
NcxNode(i, state) ==
  [label |-> IF state = "unlabelled" THEN Absent
             ELSE IF state = "digits" THEN TagValue(Decimal(i))
             ELSE TagValue(<<"L">> \o Decimal(i)),
   src |-> IF state = "untargeted" THEN Absent ELSE Str(H_a \o <<"#">> \o Decimal(i))]

RECURSIVE Ascending(_)
Ascending(S) ==
  IF S = {} THEN <<>>
  ELSE LET least == CHOOSE m \in S : \A k \in S : m =< k
       IN <<least>> \o Ascending(S \ {least})

\* the navPoint elements below depth `depth` among the nodes lo..hi
RECURSIVE NavPointsOf(_, _, _, _, _)
NavPointsOf(nodes, depths, depth, lo, hi) ==
  LET tops == Ascending({i \in lo..hi : depths[i] = depth /\ \A k \in lo..i : depths[k] >= depth})
  IN [t \in 1..Len(tops) |->
        LET last == IF t = Len(tops) THEN hi ELSE tops[t + 1] - 1
        IN NavPoint(nodes[tops[t]].label, nodes[tops[t]].src,
                    NavPointsOf(nodes, depths, depth + 1, tops[t] + 1, last))]

\* a package whose legacy TOC has the given forest, the node at `odd` (if
\* any) being in the given state
LegacyPackage(depths, odd, state) ==
  LET nodes == [i \in 1..Len(depths) |-> NcxNode(i, IF i = odd THEN state ELSE "full")]
      opf == [EmptyOpf EXCEPT
                !.dcTitle = Str(<<"B", "k">>),
                !.items = Children(<<Item(<<"n">>, H_ncx, Absent), Item(H_a, H_a, Absent)>>),
                !.itemrefs = Children(<<ItemRef(H_a)>>),
                !.toc = Str(<<"n">>)]
  IN (At(O_p_opf) :> [BlankFile EXCEPT !.opf = opf])
     @@ (At(<<"O", Slash>> \o H_ncx) :>
           [BlankFile EXCEPT !.navPoints =
              Children(NavPointsOf(nodes, depths, 0, 1, Len(depths)))])
     @@ (At(<<"O", Slash>> \o H_a) :> DocA)

\* the contents of the hyperlinks of a navigation document: plain text,
\* text inside an element, an image only, a blank only
LinkTexts ==
  { <<"N", "1">>,
    <<"<", "i", ">", "N", "2", "<", "/", "i", ">">>,
    <<"<", "i", "m", "g", "/", ">">>,
    <<" ">> }

\* the hyperlinks of a navigation document with a table-of-contents block
\* (each inside or outside the block), and those of one without
Links(marked) ==
  [href : {H_a}, text : LinkTexts, inToc : IF marked THEN BOOLEAN ELSE {FALSE}]

\* a package whose only table of contents is the navigation document
NavPackage(marked, anchors) ==
  LET opf == [EmptyOpf EXCEPT
                !.dcTitle = Str(<<"B", "k">>),
                !.items = Children(<<Item(<<"v">>, H_nav, Str(W_nav)), Item(H_a, H_a, Absent)>>),
                !.itemrefs = Children(<<ItemRef(H_a)>>)]
  IN (At(O_p_opf) :> [BlankFile EXCEPT !.opf = opf])
     @@ (At(<<"O", Slash>> \o H_nav) :>
           [BlankFile EXCEPT !.hasTocNav = marked, !.anchors = anchors])
     @@ (At(<<"O", Slash>> \o H_a) :> DocA)

H_flagged == <<"g", ".", "p", "n", "g">>

\* a package with an image item c for the metadata to name, another image
\* item g that may carry the cover-image property, and a first spine
\* document that may be missing from the disk
CoverTiersPackage(opfRelPath, docHref, onDisk, images, coverMeta, flagged) ==
  LET opf == [EmptyOpf EXCEPT
                !.dcTitle = Str(<<"B", "k">>),
                !.meta = coverMeta,
                !.items = Children(
                   << Item(<<"d">>, docHref, Absent),
                      Item(<<"g">>, H_flagged,
                           IF flagged THEN Str(W_cover_image) ELSE Absent),
                      Item(<<"c">>, H_cover, Absent) >>),
                !.itemrefs = Children(<<ItemRef(<<"d">>)>>)]
  IN (At(opfRelPath) :> [BlankFile EXCEPT !.opf = opf])
     @@ (IF onDisk
           THEN PathResolve(BookRoot, NormalizeHref(OpfDirOf(opfRelPath), docHref))
                  :> [BlankFile EXCEPT !.images = images]
           ELSE <<>>)

(***************************************************************************)
(* index.ts: the data directory of the server and the routes over it.      *)
(***************************************************************************)
N_books == <<"b", "o", "o", "k", "s">>
N_books_db == <<"b", "o", "o", "k", "s", ".", "d", "b">>
N_manifest_json == <<"m", "a", "n", "i", "f", "e", "s", "t", ".", "j", "s", "o", "n">>

\* DATA_DIR, BOOKS_DIR and the path of the database file
DataDir == <<Slash, "d">>
BooksDir == DataDir \o <<Slash>> \o N_books
DbPath == DataDir \o <<Slash>> \o N_books_db

\* path.join(base, rel): the segments of rel are appended and normalised
PathJoin(base, rel) == AbsOf(NormalizeSegs(Components(base), SplitOn(rel, Slash)))

\* the values the :id parameter of a route may take: the ids of books, and
\* the segments "." and ".."
RouteIds == BookIds \cup {".", ".."}

\* the characters of an id
IdChars(id) ==
  IF id = "k1" THEN <<"k", "1">>
  ELSE IF id = "k2" THEN <<"k", "2">>
  ELSE IF id = ".." THEN DotDot
  ELSE Dot

\* bookRoot = path.join(BOOKS_DIR, id)
BookRootOf(id) == PathJoin(BooksDir, IdChars(id))

\* the database file, and a JSON file of the given value
DbFile == [sqlite |-> TRUE]
JsonFile(value) == [json |-> value]

\* fs.rm(dir, { recursive: true, force: true })
RemoveTree(disk, dir) == [p \in {q \in DOMAIN disk : ~ContainedIn(q, dir)} |-> disk[p]]

\* extract(zip, { dir: bookRoot }): the files of the package, under bookRoot
Extract(upload, bookRoot) ==
  [p \in {bookRoot \o SubSeq(q, Len(BookRoot) + 1, Len(q)) : q \in DOMAIN upload} |->
     upload[BookRoot \o SubSeq(p, Len(bookRoot) + 1, Len(p))]]

\* the archives uploaded: a package that parses, one whose container
\* descriptor names no package document, and one such that carries a file
\* manifest.json of its own
DataUploads ==
  { ScanPackage({B_opf}, Rootfile(B_opf)),
    ScanPackage({B_opf}, Element("@_media-type" :> Str(<<"x">>))),
    ScanPackage({B_opf}, Element("@_media-type" :> Str(<<"x">>)))
      @@ (At(N_manifest_json) :> JsonFile(<<>>)) }

\* the row the import handler gives to db.upsertBook has no lastOpenedAt
\* for the named parameter @lastOpenedAt of insertBook: the statement
\* binds NULL, or rejects the row; any other error of the database is
\* answered in the same way
UpsertOutcomes == {"stored", "threw"}
MissingParameter == Threw("Missing named parameter \"lastOpenedAt\"")

\* the rest of the path a resource request may carry
ResourceSegs == {DotDot, <<"k", "1">>, <<"k", "2">>, N_books, N_books_db, N_manifest_json, H_nav}
ResourceRels == {JoinWith(segs, Slash) : segs \in SeqsUpTo(ResourceSegs, MaxRelLen)}

\* the data directory after the import of the given books, each from the
\* package upload with the manifest m
RECURSIVE DiskOf(_, _, _)
DiskOf(ids, upload, m) ==
  IF ids = {} THEN (DbPath :> DbFile)
  ELSE LET id == CHOOSE b \in ids : TRUE
       IN (PathJoin(BookRootOf(id), N_manifest_json) :> JsonFile(m))
          @@ Extract(upload, BookRootOf(id))
          @@ DiskOf(ids \ {id}, upload, m)

\* the tables after the import of the given books
RECURSIVE DbOf(_, _)
DbOf(ids, m) ==
  IF ids = {} THEN EmptyDb
  ELSE LET id == CHOOSE b \in ids : TRUE
       IN UpsertBook(DbOf(ids \ {id}, m),
            [id |-> id, title |-> m.title, opfPath |-> m.opfPath, coverHref |-> m.coverHref,
             lastOpenedAt |-> Absent, createdAt |-> 0],
            m.chapters)

\* the chapter lists a book row is stored with
ChapterLists ==
  { <<>>,
    <<Chapter(<<"T">>, H_a)>>,
    <<Chapter(<<"T">>, H_a), Chapter(<<"U">>, H_b)>> }

\* the packages of the books the chapter list is walked in: those of
\* ReaderBooks, and a package of one document whose navigation document has
\* two hyperlinks
ChapterPackages ==
  { TierPackage(<<H_a, H_b, H_c>>, "none", "none"),
    TierPackage(<<H_a, H_a_f>>, "none", "none"),
    TierPackage(<<H_a>>, "none", "links") }

\* the progress rows a book may have been left with
ProgressRows(m) ==
  {Absent} \cup
  [bookId : {"k1"}, href : {m.chapters[i].href : i \in 1..Len(m.chapters)},
   scrollX : {at.x : at \in ScrollOffsets}, scrollY : {at.y : at \in ScrollOffsets},
   updatedAt : {0}]

VARIABLES
  pc,        \* the position of the run
  baseAbs,   \* safeJoin: the root directory
  relPath,   \* safeJoin: the relative path
  joined,    \* safeJoin: the path returned, or the error
  files,     \* the unpacked package under BookRoot: absolute path -> file
  opfRel,    \* findOpfPath: the path of the package document, or the error
  manifest,  \* parseOpf: the manifest returned, or the error
  earlier,   \* the outcome of the run before this one
  db,        \* books.db: the tables books, chapters, progress and bookmarks
  stored,    \* the manifest.json files under BOOKS_DIR: book id -> manifest
  response,  \* the response to the last request
  clock,     \* Date.now()
  reader     \* the reader page: its refs

vars == <<pc, baseAbs, relPath, joined, files, opfRel, manifest, earlier,
          db, stored, response, clock, reader>>

\* what the server keeps, and the reader page
server == <<db, stored, response, clock, reader>>

\* the server before any request, the reader page not mounted
ServerStarted ==
  /\ db = EmptyDb
  /\ stored = <<>>
  /\ response = NotCalled
  /\ clock = 0
  /\ reader = ReaderSetup

(***************************************************************************)
(* The path guard on its own.                                              *)
(***************************************************************************)
InitPath ==
  /\ pc = "start"
  /\ baseAbs \in RootDirs
  /\ relPath \in RelPaths
  /\ joined = NotCalled
  /\ files = <<>>
  /\ opfRel = NotCalled
  /\ manifest = NotCalled
  /\ earlier = NotCalled
  /\ ServerStarted

CallSafeJoin ==
  /\ pc = "start"
  /\ joined' = SafeJoin(baseAbs, relPath)
  /\ pc' = "done"
  /\ UNCHANGED <<baseAbs, relPath, files, opfRel, manifest, earlier, server>>

NextPath == CallSafeJoin

SpecPath == InitPath /\ [][NextPath]_vars

(***************************************************************************)
(* parseOpf on packages with a legacy TOC and a navigation document.       *)
(***************************************************************************)
CallParseOpf ==
  /\ pc = "located"
  /\ manifest' = ParseOpf(files, BookRoot, opfRel.value)
  /\ pc' = "done"
  /\ UNCHANGED <<baseAbs, relPath, joined, files, opfRel, earlier, server>>

\* the start of a parse of the package fs with the package document at rel
Located(fs, rel) ==
  /\ pc = "located"
  /\ baseAbs = BookRoot
  /\ relPath = <<>>
  /\ joined = NotCalled
  /\ files = fs
  /\ opfRel = Returned(rel)
  /\ manifest = NotCalled
  /\ earlier = NotCalled
  /\ ServerStarted

InitToc ==
  \E spineDocs \in SeqsUpTo(SpineDocs, MaxSpine), entries \in SeqsUpTo(TocEntries, MaxToc),
     nested \in BOOLEAN, hasNav \in BOOLEAN :
    Located(TocPackage(spineDocs, entries, nested, hasNav), O_p_opf)

NextParse == CallParseOpf

SpecToc == InitToc /\ [][NextParse]_vars

(***************************************************************************)
(* C2: safeJoin returns a path only when the resolved path is contained in *)
(* root (root itself or a descendant of it), and it fails with the         *)
(* path-traversal error for every root and relPath whose resolved path is  *)
(* not contained in root, a sibling directory whose name begins with       *)
(* root's name included.                                                   *)
(***************************************************************************)
C2_SafeJoinContainment ==
  joined # NotCalled =>
    /\ joined.kind = "returned" => ContainedIn(joined.value, baseAbs)
    /\ ~ContainedIn(PathResolve(baseAbs, relPath), baseAbs) => joined = PathTraversalBlocked

EtcPasswdExemptRoot(rootAbs) ==
  LET c == Components(rootAbs)
      n == Len(c)
  IN \/ n = 0
     \/ n = 1 /\ StartsWith(N_etc, c[1])
     \/ n >= 2 /\ c[n - 1] = N_etc /\ StartsWith(N_passwd, c[n])

InitCover ==
  \E opfRelPath \in {P_opf, O_p_opf}, docHref \in FirstDocHrefs,
     images \in SeqsUpTo(ImageElements, MaxImages), coverMeta \in CoverMetas,
     flagged \in BOOLEAN :
    Located(CoverPackage(opfRelPath, docHref, images, coverMeta, flagged), opfRelPath)

SpecCover == InitCover /\ [][NextParse]_vars

(***************************************************************************)
(* parseOpf on packages with the title element in its representations.     *)
(***************************************************************************)
InitTitle ==
  \E dcTitle \in TitleNodes(MaxTitleDepth), title \in {Absent, Str(<<"T", "2">>)} :
    Located(TitlePackage(dcTitle, title), P_opf)

SpecTitle == InitTitle /\ [][NextParse]_vars

(***************************************************************************)
(* The import of a package: findOpfPath, then parseOpf; and once more on   *)
(* the same, unmodified package.                                           *)
(***************************************************************************)
InitScan ==
  /\ pc = "start"
  /\ baseAbs = BookRoot
  /\ relPath = <<>>
  /\ joined = NotCalled
  /\ \E places \in SUBSET OpfPlaces, container \in Containers :
       files = ScanPackage(places, container)
  /\ opfRel = NotCalled
  /\ manifest = NotCalled
  /\ earlier = NotCalled
  /\ ServerStarted

CallFindOpfPath ==
  /\ pc = "start" \/ (pc = "done" /\ earlier = NotCalled)
  /\ \E order \in ListingOrders(AllNames(files)) :
       opfRel' = FindOpfPath(files, BookRoot, order)
  /\ pc' = IF opfRel'.kind = "returned" THEN "located" ELSE "failed"
  /\ earlier' = manifest
  /\ manifest' = NotCalled
  /\ UNCHANGED <<baseAbs, relPath, joined, files, server>>

NextScan == CallFindOpfPath \/ CallParseOpf

SpecScan == InitScan /\ [][NextScan]_vars

(***************************************************************************)
(* What the claims speak of, read off the state.                           *)
(***************************************************************************)
Parsed == manifest.kind = "returned"

\* the package document, its manifest table, directory and spine
TheOpf == files[PathResolve(BookRoot, opfRel.value)].opf
TheMap == ManifestMap(<<>>, AsArray(Coalesce(TheOpf.items, Arr(<<>>))))
TheOpfDir == OpfDirOf(opfRel.value)
TheSpine == SpineOf(TheMap, TheOpfDir, AsArray(Coalesce(TheOpf.itemrefs, Arr(<<>>))))

\* the entries of the legacy TOC and of the navigation document
LegacyEntries == LegacyTocTier(files, BookRoot, TheOpfDir, TheOpf, TheMap).value
NavEntries == NavDocTier(files, BookRoot, TheOpfDir, TheMap).value

\* the entries of the first of the two tiers that yields any
TocEntriesFound ==
  LET opf == TheOpf
      map == ManifestMap(<<>>, AsArray(Coalesce(opf.items, Arr(<<>>))))
      legacy == LegacyTocTier(files, BookRoot, TheOpfDir, opf, map).value
  IN IF legacy # <<>> THEN legacy ELSE NavDocTier(files, BookRoot, TheOpfDir, map).value

InsideRoot(href) == ContainedIn(PathResolve(BookRoot, href), BookRoot)

(***************************************************************************)
(* C1: every manifest returned by parseOpf has chapters.length equal to    *)
(* spine.length, whichever TOC tier produced the chapters and however many *)
(* entries that tier yielded.                                              *)
(***************************************************************************)
C1_ChaptersLengthIsSpineLength ==
  Parsed => Len(manifest.value.chapters) = Len(manifest.value.spine)

(***************************************************************************)
(* C4: in every manifest returned by parseOpf every spine href, every      *)
(* chapter href and the coverHref, when present, resolved against the      *)
(* package root, lies inside the package root.                             *)
(***************************************************************************)
C4_HrefsInsideRoot ==
  Parsed =>
    /\ \A i \in 1..Len(manifest.value.spine) : InsideRoot(manifest.value.spine[i])
    /\ \A i \in 1..Len(manifest.value.chapters) : InsideRoot(manifest.value.chapters[i].href)
    /\ manifest.value.coverHref # Absent => InsideRoot(manifest.value.coverHref.v)

\* the package with the hyperlinks of its navigation document removed
WithoutNavigationLinks ==
  LET navHref == FirstWithProperty(TheMap, W_nav)
      navAbs == PathResolve(BookRoot, NormalizeHref(TheOpfDir, navHref.v))
  IN IF navHref = Absent \/ ~Exists(files, navAbs) THEN files
     ELSE [files EXCEPT ![navAbs].anchors = <<>>]

(***************************************************************************)
(* C7: tier precedence.  When a package has both a legacy TOC and a        *)
(* navigation document and the legacy TOC walk yields at least one entry,  *)
(* no chapter title or href of the manifest is taken from the navigation   *)
(* document: no title is a link text of the navigation document, and the   *)
(* chapters are those of the same package with a navigation document that  *)
(* has no hyperlinks.                                                      *)
(***************************************************************************)
C7_LegacyTocPrecedence ==
  Parsed /\ LegacyEntries # <<>> =>
    /\ \A i \in 1..Len(manifest.value.chapters) :
         manifest.value.chapters[i].title \notin NavTitles
    /\ manifest.value.chapters
         = ParseOpf(WithoutNavigationLinks, BookRoot, opfRel.value).value.chapters

C7_Witness ==
  /\ Parsed
  /\ LegacyEntries # <<>>
  /\ NavEntries # <<>>
  /\ Len(LegacyEntries) < Len(TheSpine)
  /\ \E i \in 1..Len(NavEntries) : \A j \in 1..Len(LegacyEntries) :
       BeforeHash(NavEntries[i].href) # BeforeHash(LegacyEntries[j].href)

\* the title the merge step is to give the spine entry at position i: that of
\* the earliest TOC entry naming the same document, else the document's page
\* title, else its base name without extension, else "Chapter i"
MergedTitle(entries, spine, i) ==
  LET base == BeforeHash(spine[i])
      naming == {j \in 1..Len(entries) : BeforeHash(entries[j].href) = base}
      earliest == CHOOSE j \in naming : \A k \in naming : j =< k
      page == PageTitle(files, BookRoot, base)
      name == StripExtension(PosixBasename(IF base # <<>> THEN base ELSE spine[i]))
  IN IF naming # {} THEN entries[earliest].title
     ELSE IF page # Absent /\ page.v # <<>> THEN page.v
     ELSE IF name # <<>> THEN name
     ELSE ChapterN(i)

(***************************************************************************)
(* C8: merge correctness.  Whenever tier 1 or tier 2 yields fewer entries  *)
(* than spine.length, the chapter list has exactly one entry per spine     *)
(* entry, in spine order, with href equal to the spine href; the title at  *)
(* position i is that of the earliest tier-1/2 entry whose                 *)
(* fragment-stripped href equals the fragment-stripped spine[i], otherwise *)
(* the document's own page title, else its base name without extension,    *)
(* else "Chapter i+1" (i counted from 0).                                  *)
(***************************************************************************)
C8_MergeCorrectness ==
  Parsed =>
    LET entries == TocEntriesFound
        spine == manifest.value.spine
        chapters == manifest.value.chapters
    IN entries # <<>> /\ Len(entries) < Len(spine) =>
         /\ Len(chapters) = Len(spine)
         /\ \A i \in 1..Len(spine) :
              /\ chapters[i].href = spine[i]
              /\ chapters[i].title = MergedTitle(entries, spine, i)

\* a three-document spine with two TOC entries naming its first document
\* under different labels, the other documents named by none
C8_Witness ==
  /\ Parsed
  /\ Len(TheSpine) = 3
  /\ Len(TocEntriesFound) = 2
  /\ TocEntriesFound[1].title # TocEntriesFound[2].title
  /\ BeforeHash(TocEntriesFound[1].href) = BeforeHash(TheSpine[1])
  /\ BeforeHash(TocEntriesFound[2].href) = BeforeHash(TheSpine[1])
  /\ manifest.value.chapters[1].title = TocEntriesFound[1].title
  /\ manifest.value.chapters[3].title = ChapterN(3)

\* the first text a title value carries, Absent when it carries none: a
\* non-empty string, a number, the first text of the items of an array, or
\* of the text-bearing keys of an object
RECURSIVE FirstText(_)
FirstText(x) ==
  IF x.k = "str" THEN (IF x.v = <<>> THEN Absent ELSE x)
  ELSE IF x.k = "num" THEN Str(Decimal(x.v))
  ELSE IF x.k = "arr"
    THEN LET texts == SelectSeq([i \in 1..Len(x.v) |-> FirstText(x.v[i])],
                                LAMBDA t : t # Absent)
         IN IF texts = <<>> THEN Absent ELSE texts[1]
  ELSE IF x.k = "obj"
    THEN LET keys == <<"#text", "text", "#", "_">>
             texts == SelectSeq([i \in 1..4 |-> FirstText(Field(x, keys[i]))],
                                LAMBDA t : t # Absent)
         IN IF texts = <<>> THEN Absent ELSE texts[1]
  ELSE Absent

\* the metadata title element: <dc:title>, else <title>
TitleElement == Coalesce(TheOpf.dcTitle, TheOpf.title)

(***************************************************************************)
(* C5: the manifest title is the first textual content of the metadata     *)
(* title element, and is "Untitled" whenever the title element is absent   *)
(* or empty (empty string, empty element, or a nested, array or object     *)
(* representation with no text); a returned manifest never has an empty    *)
(* title.                                                                  *)
(***************************************************************************)
C5_TitleOrUntitled ==
  Parsed =>
    /\ manifest.value.title # <<>>
    /\ manifest.value.title =
         (IF FirstText(TitleElement) = Absent THEN Untitled ELSE FirstText(TitleElement).v)

\* the first spine document, and the directory it lies in
FirstDocAbs == PathResolve(BookRoot, BeforeHash(manifest.value.spine[1]))
FirstDocDir == PathResolve(FirstDocAbs, DotDot)

(***************************************************************************)
(* C9: cover fallback.  With no cover metadata entry and no manifest item  *)
(* flagged cover-image, coverHref is the package-root-relative href of the *)
(* first embedded image reference, in document order, of the first spine   *)
(* document, be it an <img> or an <image>, and wherever the first spine    *)
(* document lies relative to the package document's directory.             *)
(***************************************************************************)
C9_CoverFallback ==
  Parsed /\ TheOpf.meta = Absent /\ FirstWithProperty(TheMap, W_cover_image) = Absent
         /\ InsideRoot(BeforeHash(manifest.value.spine[1]))
         /\ Exists(files, FirstDocAbs) /\ files[FirstDocAbs].images # <<>> =>
    /\ manifest.value.coverHref # Absent
    /\ PathResolve(BookRoot, manifest.value.coverHref.v)
         = PathResolve(FirstDocDir, files[FirstDocAbs].images[1].ref)

\* the characters of the names in the order of their code units
CodeUnits ==
  <<"-", ".", "/">> \o <<"0", "1", "2", "3", "4", "5", "6", "7", "8", "9">>
  \o UpperCase \o <<"_">> \o LowerCase

CodeOf(ch) == CHOOSE i \in 1..Len(CodeUnits) : CodeUnits[i] = ch

\* a comes before b in lexicographic order
LexLess(a, b) ==
  \E k \in 1..(Len(a) + 1) :
    /\ k =< Len(b)
    /\ SubSeq(a, 1, k - 1) = SubSeq(b, 1, k - 1)
    /\ k = Len(a) + 1 \/ CodeOf(a[k]) < CodeOf(b[k])

\* the names in lexicographic order
LexicographicOrder(names) ==
  CHOOSE order \in ListingOrders(names) :
    \A i, j \in 1..Len(order) : i < j => LexLess(order[i], order[j])

ContainerAbsent ==
  ~Exists(files, At(N_META_INF \o <<Slash>> \o N_container_xml))

(***************************************************************************)
(* C6: idempotence.  findOpfPath followed by parseOpf, run twice on the    *)
(* same unmodified package root, yields manifests equal in every field,    *)
(* whatever the order in which the file system lists directory entries.    *)
(***************************************************************************)
C6_SameManifestTwice ==
  pc = "done" /\ earlier # NotCalled => manifest = earlier

(***************************************************************************)
(* C10: when the container descriptor is absent, findOpfPath returns the   *)
(* root-relative path of the first file with the package-document          *)
(* extension met by a depth-first scan of root that visits the entries of  *)
(* each directory in lexicographic order, the parse then uses that file,   *)
(* and findOpfPath fails with the no-package-document error when no such   *)
(* file exists under root.                                                 *)
(***************************************************************************)
C10_ScanInLexicographicOrder ==
  opfRel # NotCalled /\ ContainerAbsent =>
    LET opfs == WalkDir(files, BookRoot, LexicographicOrder(AllNames(files))) IN
    /\ opfRel = IF opfs = <<>> THEN OpfNotFound
                ELSE Returned(PathRelative(BookRoot, opfs[1]))
    /\ Parsed => manifest.value.opfPath = PathRelative(BookRoot, opfs[1])

(***************************************************************************)
(* parseOpf on packages that carry writing-direction signals.              *)
(***************************************************************************)
InitDirection ==
  \E opfRelPath \in {P_opf, O_p_opf}, firstHref \in {H_a, H_a_f, H_sub_a, H_escape},
     firstDoc \in DocStates, secondSignal \in BOOLEAN, rtl \in BOOLEAN :
    Located(DirectionPackage(opfRelPath, firstHref, firstDoc, secondSignal, rtl), opfRelPath)

SpecDirection == InitDirection /\ [][NextParse]_vars

\* the first spine document is on disk and carries a signal
FirstDocSignal == Exists(files, FirstDocAbs) /\ files[FirstDocAbs].vertical

\* the first spine document can be read: its path passes the guard and it
\* is on disk
FirstDocReadable ==
  /\ SafeJoin(BookRoot, BeforeHash(manifest.value.spine[1])).kind = "returned"
  /\ Exists(files, FirstDocAbs)

(***************************************************************************)
(* C11: when the package document declares right-to-left page progression  *)
(* the manifest has vertical = true, also when the first spine document    *)
(* carries no signal or cannot be read; and vertical is false when neither *)
(* the first spine document nor the package document carries a signal.     *)
(***************************************************************************)
C11_RtlPackageIsVertical ==
  Parsed =>
    /\ TheOpf.rtl => manifest.value.vertical = TRUE
    /\ ~TheOpf.rtl /\ ~FirstDocSignal => manifest.value.vertical = FALSE

\* right-to-left declared and the first spine document unreadable
C11_Witness ==
  /\ Parsed
  /\ TheOpf.rtl
  /\ ~FirstDocReadable
  /\ manifest.value.vertical = TRUE

(***************************************************************************)
(* parseOpf on packages whose TOC, navigation and content documents may be *)
(* missing, empty or outside the package root.                             *)
(***************************************************************************)
InitTiers ==
  \E spineDocs \in SeqsUpTo(TierDocs, MaxTierSpine), toc \in TocStates, nav \in NavStates :
    Located(TierPackage(spineDocs, toc, nav), O_p_opf)

SpecTiers == InitTiers /\ [][NextParse]_vars

(***************************************************************************)
(* C12: for every package whose resolved spine is non-empty parseOpf       *)
(* returns a manifest: a failure in locating, reading or parsing the       *)
(* legacy TOC, the navigation document, a spine document, the cover source *)
(* or the direction inputs stays inside its tier and never leaves          *)
(* parseOpf.                                                               *)
(***************************************************************************)
C12_TierFailuresNeverPropagate ==
  manifest # NotCalled /\ TheSpine # <<>> => Parsed

(***************************************************************************)
(* The server: imports, the list of books, deletions.                      *)
(***************************************************************************)
InitImport ==
  /\ pc = "listening"
  /\ baseAbs = BookRoot
  /\ relPath = <<>>
  /\ joined = NotCalled
  /\ files = <<>>
  /\ opfRel = NotCalled
  /\ manifest = NotCalled
  /\ earlier = NotCalled
  /\ ServerStarted

\* POST /api/books/import without a file
ImportMissingFile ==
  /\ pc = "listening"
  /\ response' = [route |-> "import"] @@ Failed(400, "missing file")
  /\ UNCHANGED <<pc, baseAbs, relPath, joined, files, opfRel, manifest, earlier,
                 db, stored, clock, reader>>

\* POST /api/books/import with a file: unpack, findOpfPath, parseOpf, write
\* manifest.json, db.upsertBook; any error is answered with status 500
ImportBook ==
  /\ pc = "listening"
  /\ clock < MaxClock
  /\ \E upload \in Uploads, bookId \in BookIds \ (DOMAIN db.books \cup DOMAIN stored) :
       \E order \in ListingsRead(upload) :
         /\ files' = upload
         /\ opfRel' = FindOpfPath(upload, BookRoot, order)
         /\ manifest' = IF opfRel'.kind = "returned"
                          THEN ParseOpf(upload, BookRoot, opfRel'.value) ELSE NotCalled
         /\ LET parsed == IF opfRel'.kind = "returned" THEN manifest' ELSE opfRel'
            IN /\ stored' = IF parsed.kind = "returned"
                              THEN (bookId :> parsed.value) @@ stored ELSE stored
               /\ db' = UpsertImported(db, bookId, parsed, clock + 1)
               /\ response' = [route |-> "import"] @@
                    (IF parsed.kind = "returned"
                       THEN Ok([id |-> bookId, manifest |-> parsed.value])
                       ELSE Failed(500, parsed.error))
  /\ clock' = clock + 1
  /\ UNCHANGED <<pc, baseAbs, relPath, joined, earlier, reader>>

\* GET /api/books
GetBooks ==
  /\ pc = "listening"
  /\ response' = [route |-> "books"] @@ Ok(ListBooks(db))
  /\ UNCHANGED <<pc, baseAbs, relPath, joined, files, opfRel, manifest, earlier,
                 db, stored, clock, reader>>

\* DELETE /api/books/:id
DeleteBookRequest ==
  /\ pc = "listening"
  /\ \E id \in BookIds :
       /\ db' = DeleteBook(db, id)
       /\ stored' = Without(stored, id)
  /\ response' = [route |-> "delete"] @@ Ok(TRUE)
  /\ UNCHANGED <<pc, baseAbs, relPath, joined, files, opfRel, manifest, earlier, clock,
                 reader>>

NextImport == ImportMissingFile \/ ImportBook \/ GetBooks \/ DeleteBookRequest

SpecImport == InitImport /\ [][NextImport]_vars

DeclaredRootfilePaths ==
  LET rootfiles == AsArray(files[At(N_META_INF \o <<Slash>> \o N_container_xml)].rootfile)
      paths == [i \in 1..Len(rootfiles) |->
                  IF rootfiles[i].k = "obj" THEN Field(rootfiles[i], "@_full-path") ELSE Absent]
  IN SelectSeq(paths, LAMBDA x : x # Absent)

\* some file below the package root has the package-document extension
PackageDocumentPresent ==
  \E f \in DOMAIN files : EndsWith(ToLowerCase(f), Ext_opf)

(***************************************************************************)
(* C14: when the container descriptor exists findOpfPath returns the path  *)
(* of the first declared root-file and never falls back to the directory   *)
(* scan; when the descriptor declares no root-file path it fails with the  *)
(* missing-rootfile error, also when a package-document file is present    *)
(* under root.                                                             *)
(***************************************************************************)
C14_DescriptorDecides ==
  opfRel # NotCalled /\ ~ContainerAbsent =>
    opfRel = IF DeclaredRootfilePaths = <<>> THEN FullPathNotFound
             ELSE Returned(DeclaredRootfilePaths[1].v)

\* a descriptor without a root-file path beside a package document
C14_Witness ==
  /\ ~ContainerAbsent
  /\ DeclaredRootfilePaths = <<>>
  /\ PackageDocumentPresent
  /\ opfRel = FullPathNotFound

(***************************************************************************)
(* Reading: progress saves, bookmarks, and the reader page opened on a     *)
(* book of the library.                                                    *)
(***************************************************************************)
InitReader ==
  /\ pc = "listening"
  /\ baseAbs = BookRoot
  /\ relPath = <<>>
  /\ joined = NotCalled
  /\ files = <<>>
  /\ opfRel = NotCalled
  /\ manifest = NotCalled
  /\ earlier = NotCalled
  /\ \E m \in ReaderBooks :
       /\ db = LibraryOf(m)
       /\ stored = ("k1" :> m)
  /\ response = NotCalled
  /\ clock = 0
  /\ reader = ReaderSetup

\* the hrefs a payload may carry: those of the chapters of the book, or none
PayloadHrefs == {stored["k1"].chapters[i].href : i \in 1..Len(stored["k1"].chapters)} \cup {<<>>}

\* PUT /api/books/:id/progress
PutProgress ==
  /\ pc = "listening"
  /\ clock < MaxClock
  /\ \E bookId \in BookIds, href \in PayloadHrefs, at \in ScrollOffsets :
       LET done == UpsertProgress(db, [bookId |-> bookId, href |-> href, scrollX |-> at.x,
                                       scrollY |-> at.y, updatedAt |-> clock + 1])
       IN IF href = <<>>
            THEN /\ response' = [route |-> "progress"] @@ Failed(400, "invalid payload")
                 /\ db' = db
            ELSE IF done.kind = "threw"
              THEN /\ response' = [route |-> "progress"] @@ Failed(500, done.error)
                   /\ db' = db
              ELSE /\ response' = [route |-> "progress"] @@ Ok(TRUE)
                   /\ db' = done.value
  /\ clock' = clock + 1
  /\ UNCHANGED <<pc, baseAbs, relPath, joined, files, opfRel, manifest, earlier, stored,
                 reader>>

\* POST /api/books/:id/bookmarks
PostBookmark ==
  /\ pc = "listening"
  /\ clock < MaxClock
  /\ \E bookId \in BookIds, href \in PayloadHrefs, at \in ScrollOffsets :
       LET done == AddBookmark(db, [bookId |-> bookId, href |-> href, scrollX |-> at.x,
                                    scrollY |-> at.y, title |-> <<"t">>,
                                    createdAt |-> clock + 1])
       IN IF href = <<>>
            THEN /\ response' = [route |-> "bookmarks"] @@ Failed(400, "invalid payload")
                 /\ db' = db
            ELSE IF done.kind = "threw"
              THEN /\ response' = [route |-> "bookmarks"] @@ Failed(500, done.error)
                   /\ db' = db
              ELSE /\ response' = [route |-> "bookmarks"] @@ Ok(done.value.lastBookmarkId)
                   /\ db' = done.value
  /\ clock' = clock + 1
  /\ UNCHANGED <<pc, baseAbs, relPath, joined, files, opfRel, manifest, earlier, stored,
                 reader>>

\* DELETE /api/books/:id/bookmarks/:bmId
DeleteBookmarkRequest ==
  /\ pc = "listening"
  /\ \E bookId \in BookIds, bmId \in 1..db.lastBookmarkId :
       db' = DeleteBookmark(db, bookId, bmId)
  /\ response' = [route |-> "bookmarks"] @@ Ok(TRUE)
  /\ UNCHANGED <<pc, baseAbs, relPath, joined, files, opfRel, manifest, earlier, stored,
                 clock, reader>>

\* the reader page is opened on a book: onMounted
OpenReader ==
  /\ pc = "listening"
  /\ \E bookId \in BookIds :
       IF bookId \notin DOMAIN stored
         THEN /\ reader' = [ReaderSetup EXCEPT !.bookId = bookId, !.title = T_Load_failed,
                                               !.error = "not found"]
              /\ response' = [route |-> "manifest"] @@ Failed(404, "not found")
              /\ db' = db
         ELSE /\ reader' = Mounted(bookId, stored[bookId], GetProgress(db, bookId),
                                   ListBookmarks(db, bookId))
              /\ response' = [route |-> "bookmarks"] @@ Ok(ListBookmarks(db, bookId))
              /\ db' = MarkOpened(db, bookId, clock)
  /\ pc' = "reading"
  /\ UNCHANGED <<baseAbs, relPath, joined, files, opfRel, manifest, earlier, stored, clock>>

\* the chapter document has loaded in the iframe: onLoad
OnLoad ==
  /\ pc = "reading"
  /\ reader.currentHref # <<>>
  /\ reader' = IF reader.pendingScroll = Absent THEN reader
               ELSE [reader EXCEPT !.scroll = reader.pendingScroll,
                                   !.pendingScroll = Absent]
  /\ pc' = "loaded"
  /\ UNCHANGED <<baseAbs, relPath, joined, files, opfRel, manifest, earlier, db, stored,
                 response, clock>>

\* back to the library: goLibrary
GoLibrary ==
  /\ pc \in {"reading", "loaded"}
  /\ reader' = ReaderSetup
  /\ pc' = "listening"
  /\ UNCHANGED <<baseAbs, relPath, joined, files, opfRel, manifest, earlier, db, stored,
                 response, clock>>

NextReader ==
  PutProgress \/ PostBookmark \/ DeleteBookmarkRequest \/ OpenReader \/ OnLoad \/ GoLibrary

SpecReader == InitReader /\ [][NextReader]_vars

(***************************************************************************)
(* C15: auto-restore of the last reading position.  After any sequence of  *)
(* progress saves and bookmark additions for a book, the reader opened on  *)
(* that book selects the chapter and the scroll offsets of the progress    *)
(* record, which is the payload of the last PUT.                           *)
(***************************************************************************)
C15_RestoresLastProgress ==
  pc = "reading" /\ reader.bookId \in DOMAIN db.progress =>
    LET p == db.progress[reader.bookId] IN
    /\ BeforeHash(reader.currentHref) = BeforeHash(p.href)
    /\ reader.pendingScroll = [x |-> p.scrollX, y |-> p.scrollY]

(***************************************************************************)
(* C16: in every manifest returned by parseOpf there is one chapter entry  *)
(* per spine position: for every index i, chapters[i].href with its        *)
(* fragment stripped equals spine[i] with its fragment stripped, so the    *)
(* chapter list is in spine order.                                         *)
(***************************************************************************)
C16_ChaptersFollowSpine ==
  Parsed =>
    LET spine == manifest.value.spine
        chapters == manifest.value.chapters
    IN /\ Len(chapters) = Len(spine)
       /\ \A i \in 1..Len(spine) :
            i =< Len(chapters) => BeforeHash(chapters[i].href) = BeforeHash(spine[i])

(***************************************************************************)
(* parseOpf on packages whose item-references may name no manifest item.   *)
(***************************************************************************)
InitSpine ==
  \E opfRelPath \in {P_opf, O_p_opf}, items \in ManifestVariants,
     refs \in SeqsUpTo(RefKinds, MaxRefs) :
    Located(SpinePackage(opfRelPath, items, refs), opfRelPath)

SpecSpine == InitSpine /\ [][NextParse]_vars

\* the declared items and item-references of the package document
DeclaredItems == AsArray(Coalesce(TheOpf.items, Arr(<<>>)))
DeclaredRefs == AsArray(Coalesce(TheOpf.itemrefs, Arr(<<>>)))

\* the href the manifest table gives for an id: that of the last declared
\* item with this id and an href, Absent when there is none
TableHref(id) ==
  LET at == {i \in 1..Len(DeclaredItems) :
               /\ DeclaredItems[i].k = "obj"
               /\ Field(DeclaredItems[i], "@_id") = Str(id)
               /\ Field(DeclaredItems[i], "@_href") \notin {Absent, Str(<<>>)}}
  IN IF id = <<>> \/ at = {} THEN Absent
     ELSE Field(DeclaredItems[CHOOSE i \in at : \A j \in at : j =< i], "@_href")

\* the directory of the package document, "" for the package root
DeclaredDir ==
  LET k == LastIn(opfRel.value, Slash, 1, Len(opfRel.value)) IN
  IF k = 0 THEN <<>> ELSE SubSeq(opfRel.value, 1, k - 1)

\* the spine the item-references declare, from the reference at position i on
RECURSIVE DeclaredSpineFrom(_)
DeclaredSpineFrom(i) ==
  IF i > Len(DeclaredRefs) THEN <<>>
  ELSE LET ref == DeclaredRefs[i]
           idref == IF ref.k = "obj" THEN Field(ref, "@_idref") ELSE Absent
           href == IF idref = Absent THEN Absent ELSE TableHref(idref.v)
           path == IF DeclaredDir = <<>> THEN href.v ELSE DeclaredDir \o <<Slash>> \o href.v
       IN (IF href = Absent THEN <<>>
           ELSE <<[k \in 1..Len(path) |-> IF path[k] = "\\" THEN Slash ELSE path[k]]>>)
          \o DeclaredSpineFrom(i + 1)

(***************************************************************************)
(* C17: the spine of parseOpf is exactly the declared item-references in   *)
(* declared order, each resolved through the manifest table to its href,   *)
(* prefixed by the directory of the package document, backslashes turned   *)
(* into "/"; references that name no manifest item are skipped and the     *)
(* order of the others is kept; parseOpf fails with the empty-spine error, *)
(* returning no manifest, if and only if that sequence is empty.           *)
(***************************************************************************)
C17_SpineIsDeclaredOrder ==
  manifest # NotCalled =>
    /\ manifest = EmptySpine <=> DeclaredSpineFrom(1) = <<>>
    /\ Parsed <=> DeclaredSpineFrom(1) # <<>>
    /\ Parsed => manifest.value.spine = DeclaredSpineFrom(1)

\* two item-references of which the first names no manifest item, in a
\* package document that lies in a directory
C17_Witness ==
  /\ Parsed
  /\ Len(DeclaredRefs) = 2
  /\ Field(DeclaredRefs[1], "@_idref") = Str(<<"z">>)
  /\ DeclaredDir # <<>>
  /\ Len(manifest.value.spine) = 1
  /\ manifest.value.spine[1] = <<"O", Slash, "s", Slash, "w", ".", "x">>

(***************************************************************************)
(* parseOpf on packages whose legacy TOC is a forest of navPoints.         *)
(***************************************************************************)
InitLegacy ==
  \E n \in 0..MaxNodes :
    \E depths \in DepthLists(n), odd \in 0..n, state \in NodeStates :
      /\ odd = 0 => state = "full"
      /\ odd # 0 => state # "full"
      /\ Located(LegacyPackage(depths, odd, state), O_p_opf)

SpecLegacy == InitLegacy /\ [][NextParse]_vars

\* the legacy TOC document of the package
TheNcx == files[At(<<"O", Slash>> \o H_ncx)]

\* the text of an element, as written in the document
TextOf(value) ==
  IF value = Absent THEN <<>>
  ELSE IF value.k = "num" THEN Decimal(value.v)
  ELSE IF value.k = "str" THEN value.v
  ELSE <<>>

\* the nodes of a navigation tree in depth-first pre-order, children in
\* document order, each as <<label text, target>>
RECURSIVE PreOrder(_)
PreOrder(nodes) ==
  IF nodes = <<>> THEN <<>>
  ELSE LET np == Head(nodes)
           label == IF Field(np, "navLabel") = Absent THEN <<>>
                    ELSE TextOf(Field(Field(np, "navLabel"), "text"))
           target == IF Field(np, "content") = Absent THEN <<>>
                     ELSE TextOf(Field(Field(np, "content"), "@_src"))
       IN <<[label |-> label, target |-> target]>>
          \o PreOrder(AsArray(Coalesce(Field(np, "navPoint"), Arr(<<>>))))
          \o PreOrder(Tail(nodes))

\* the entries the walk has to emit: of the nodes in pre-order, those
\* carrying both a label and a target
LabelledTargets ==
  LET all == PreOrder(AsArray(Coalesce(TheNcx.navPoints, Arr(<<>>))))
      both == SelectSeq(all, LAMBDA n : n.label # <<>> /\ n.target # <<>>)
  IN [i \in 1..Len(both) |->
        Chapter(both[i].label, <<"O", Slash>> \o both[i].target)]

(***************************************************************************)
(* C18: the legacy-TOC tier emits entries in depth-first pre-order of the  *)
(* navigation tree: a node carrying both a label and a target is emitted   *)
(* before its children, children are visited in document order, and a node *)
(* missing its label or its target is skipped without aborting the walk,   *)
(* its descendants still being visited and emitted. (The spine has one     *)
(* document, so the entries emitted are the chapters of the manifest.)     *)
(***************************************************************************)
C18_LegacyTocInPreOrder ==
  Parsed /\ LabelledTargets # <<>> => manifest.value.chapters = LabelledTargets

(***************************************************************************)
(* parseOpf on packages whose table of contents is a navigation document.  *)
(***************************************************************************)
InitNav ==
  \E marked \in BOOLEAN :
    \E anchors \in SeqsUpTo(Links(marked), MaxAnchors) :
      Located(NavPackage(marked, anchors), O_p_opf)

SpecNav == InitNav /\ [][NextParse]_vars

\* the navigation document of the package
TheNav == files[At(<<"O", Slash>> \o H_nav)]

\* the hyperlinks of the table-of-contents block, or of the whole document
\* when no block is marked, in document order
BlockLinks ==
  IF TheNav.hasTocNav THEN SelectSeq(TheNav.anchors, LAMBDA a : a.inToc)
  ELSE TheNav.anchors

(***************************************************************************)
(* C19: the navigation-document tier extracts every hyperlink inside the   *)
(* table-of-contents block (or the whole document when no block is marked) *)
(* in document order, one chapter entry per hyperlink with the             *)
(* tag-stripped link text as title and the link target as href; no         *)
(* hyperlink of the block is omitted. (There is no legacy TOC and the      *)
(* spine has one document, so the entries extracted are the chapters of    *)
(* the manifest.)                                                          *)
(***************************************************************************)
C19_EveryHyperlinkExtracted ==
  Parsed /\ BlockLinks # <<>> =>
    /\ Len(manifest.value.chapters) = Len(BlockLinks)
    /\ \A i \in 1..Len(BlockLinks) :
         i =< Len(manifest.value.chapters) =>
           /\ manifest.value.chapters[i].title = StripTags(BlockLinks[i].text)
           /\ manifest.value.chapters[i].href = <<"O", Slash>> \o BlockLinks[i].href

\* the page-title text of the document a spine href names, tags stripped;
\* empty when the document is not on disk inside the package root or has
\* no <title>
DocumentTitle(href) ==
  LET abs == PathResolve(BookRoot, BeforeHash(href)) IN
  IF ContainedIn(abs, BookRoot) /\ abs \in DOMAIN files /\ files[abs].title # Absent
    THEN StripTags(files[abs].title.v)
    ELSE <<>>

\* the base name of the file a spine href names, extension stripped
Stem(href) == StripExtension(PosixBasename(BeforeHash(href)))

(***************************************************************************)
(* C20: when neither the legacy TOC nor the navigation document yields an  *)
(* entry, the per-document tier yields exactly one entry per spine item,   *)
(* in spine order, with href equal to the spine href and a non-empty title *)
(* chosen as: the page-title text of the document if readable and          *)
(* non-empty, otherwise the base name of the file with extension stripped, *)
(* otherwise "Chapter N" with N the 1-based spine index; an unreadable     *)
(* document never removes its entry.                                       *)
(***************************************************************************)
C20_OneEntryPerSpineItem ==
  Parsed /\ LegacyEntries = <<>> /\ NavEntries = <<>> =>
    LET spine == manifest.value.spine
        chapters == manifest.value.chapters
    IN /\ Len(chapters) = Len(spine)
       /\ \A i \in 1..Len(spine) :
            i =< Len(chapters) =>
              /\ chapters[i].href = spine[i]
              /\ chapters[i].title # <<>>
              /\ chapters[i].title =
                   IF DocumentTitle(spine[i]) # <<>> THEN DocumentTitle(spine[i])
                   ELSE IF Stem(spine[i]) # <<>> THEN Stem(spine[i])
                   ELSE ChapterN(i)

\* a spine of a document that is not on disk and a document without a base
\* name, after a legacy TOC and a navigation document that yield nothing
C20_Witness ==
  /\ Parsed
  /\ IsString(TheOpf.toc)
  /\ LegacyEntries = <<>> /\ NavEntries = <<>>
  /\ manifest.value.spine = <<<<"O", Slash>> \o H_c, <<"O", Slash>> \o H_dot>>
  /\ manifest.value.chapters =
       << Chapter(<<"c">>, <<"O", Slash>> \o H_c),
          Chapter(ChapterN(2), <<"O", Slash>> \o H_dot) >>

(***************************************************************************)
(* parseOpf on packages in which each cover tier may or may not yield.     *)
(***************************************************************************)
InitCoverTiers ==
  \E opfRelPath \in {P_opf, O_p_opf}, docHref \in {H_a, H_escape}, onDisk \in BOOLEAN,
     images \in SeqsUpTo(ImageElements, MaxImages), coverMeta \in CoverMetas,
     flagged \in BOOLEAN :
    /\ ~onDisk => images = <<>>
    /\ Located(CoverTiersPackage(opfRelPath, docHref, onDisk, images, coverMeta, flagged),
               opfRelPath)

SpecCoverTiers == InitCoverTiers /\ [][NextParse]_vars

\* an href of the package document, relative to the package root
FromRoot(href) == IF DeclaredDir = <<>> THEN href ELSE DeclaredDir \o <<Slash>> \o href

\* tier 1: the href of the manifest item the metadata cover entry names
MetadataCover ==
  LET metas == AsArray(Coalesce(TheOpf.meta, Arr(<<>>)))
      named == SelectSeq(metas, LAMBDA e :
                 /\ e.k = "obj"
                 /\ Field(e, "@_name") = Str(W_cover)
                 /\ Field(e, "@_content") \notin {Absent, Str(<<>>)})
  IN IF named = <<>> THEN Absent ELSE TableHref(Field(named[1], "@_content").v)

\* tier 2: the href of the first declared item flagged cover-image
FlaggedCover ==
  LET at == {i \in 1..Len(DeclaredItems) :
               HasProperty(Field(DeclaredItems[i], "@_properties"), W_cover_image)}
  IN IF at = {} THEN Absent
     ELSE Field(DeclaredItems[CHOOSE i \in at : \A j \in at : i =< j], "@_href")

\* tier 3: the image references of the first spine document, none when the
\* document is not on disk inside the package root
FirstDocImages ==
  LET abs == PathResolve(BookRoot, BeforeHash(DeclaredSpineFrom(1)[1])) IN
  IF ContainedIn(abs, BookRoot) /\ abs \in DOMAIN files
    THEN {files[abs].images[i].ref : i \in 1..Len(files[abs].images)}
    ELSE {}

InitData ==
  /\ pc = "listening"
  /\ baseAbs = BooksDir
  /\ relPath = <<>>
  /\ joined = NotCalled
  /\ files = (DbPath :> DbFile)
  /\ opfRel = NotCalled
  /\ manifest = NotCalled
  /\ earlier = NotCalled
  /\ ServerStarted

\* POST /api/books/import with a file: mkdir, extract, findOpfPath, parseOpf,
\* writeFile manifest.json, db.upsertBook; any error is answered with 500
ImportUpload ==
  /\ pc = "listening"
  /\ clock < MaxClock
  /\ \E upload \in DataUploads, outcome \in UpsertOutcomes,
        bookId \in {b \in BookIds : b \notin DOMAIN db.books
                                    /\ ~IsDirectory(files, BookRootOf(b))} :
       LET bookRoot == BookRootOf(bookId)
           extracted == Extract(upload, bookRoot) @@ files
       IN /\ opfRel' = FindOpfPath(extracted, bookRoot, <<>>)
          /\ manifest' = IF opfRel'.kind = "returned"
                           THEN ParseOpf(extracted, bookRoot, opfRel'.value) ELSE NotCalled
          /\ IF manifest'.kind = "returned"
               THEN /\ files' = (PathJoin(bookRoot, N_manifest_json) :> JsonFile(manifest'.value))
                                @@ extracted
                    /\ IF outcome = "stored"
                         THEN /\ db' = UpsertImported(db, bookId, manifest', clock + 1)
                              /\ response' = [route |-> "import"] @@
                                   Ok([id |-> bookId, manifest |-> manifest'.value])
                         ELSE /\ db' = db
                              /\ response' = [route |-> "import"] @@
                                   Failed(500, MissingParameter.error)
               ELSE /\ outcome = "stored"
                    /\ files' = extracted
                    /\ db' = db
                    /\ response' = [route |-> "import"] @@
                         Failed(500, IF opfRel'.kind = "threw" THEN opfRel'.error
                                     ELSE manifest'.error)
  /\ clock' = clock + 1
  /\ UNCHANGED <<pc, baseAbs, relPath, joined, earlier, stored, reader>>

\* DELETE /api/books/:id
DeleteRoute ==
  /\ pc = "listening"
  /\ \E id \in RouteIds :
       /\ db' = DeleteBook(db, id)
       /\ files' = RemoveTree(files, BookRootOf(id))
       /\ response' = [route |-> "delete", id |-> id] @@ Ok(TRUE)
  /\ UNCHANGED <<pc, baseAbs, relPath, joined, opfRel, manifest, earlier, stored, clock,
                 reader>>

\* GET /api/books/:id/manifest
GetManifest ==
  /\ pc = "listening"
  /\ \E id \in RouteIds :
       LET p == PathJoin(BookRootOf(id), N_manifest_json) IN
       response' = [route |-> "manifest"] @@
                     (IF p \in DOMAIN files THEN Ok(files[p])
                      ELSE Failed(404, "not found"))
  /\ UNCHANGED <<pc, baseAbs, relPath, joined, files, opfRel, manifest, earlier,
                 db, stored, clock, reader>>

\* PUT /api/books/:id/progress with a valid payload
PutProgressOf ==
  /\ pc = "listening"
  /\ \E id \in RouteIds :
       LET done == UpsertProgress(db, [bookId |-> id, href |-> H_nav, scrollX |-> 0,
                                       scrollY |-> 7, updatedAt |-> clock])
       IN IF done.kind = "threw"
            THEN /\ response' = [route |-> "progress"] @@ Failed(500, done.error)
                 /\ db' = db
            ELSE /\ response' = [route |-> "progress"] @@ Ok(TRUE)
                 /\ db' = done.value
  /\ UNCHANGED <<pc, baseAbs, relPath, joined, files, opfRel, manifest, earlier, stored,
                 clock, reader>>

\* POST /api/books/:id/bookmarks with a valid payload
PostBookmarkOf ==
  /\ pc = "listening"
  /\ db.lastBookmarkId < MaxBookmarks
  /\ \E id \in RouteIds :
       LET done == AddBookmark(db, [bookId |-> id, href |-> H_nav, scrollX |-> 0,
                                    scrollY |-> 7, title |-> <<"B">>, createdAt |-> clock])
       IN IF done.kind = "threw"
            THEN /\ response' = [route |-> "bookmarks"] @@ Failed(500, done.error)
                 /\ db' = db
            ELSE /\ response' = [route |-> "bookmarks"] @@ Ok(TRUE)
                 /\ db' = done.value
  /\ UNCHANGED <<pc, baseAbs, relPath, joined, files, opfRel, manifest, earlier, stored,
                 clock, reader>>

NextData ==
  \/ ImportUpload \/ DeleteRoute \/ GetManifest \/ GetBooks
  \/ PutProgressOf \/ PostBookmarkOf

SpecData == InitData /\ [][NextData]_vars

(***************************************************************************)
(* One request to the resource route, the library holding some books.      *)
(***************************************************************************)
InitResource ==
  /\ pc = "requested"
  /\ baseAbs = BooksDir
  /\ relPath = <<>>
  /\ joined = NotCalled
  /\ \E ids \in SUBSET BookIds, upload \in {ScanPackage({B_opf}, Rootfile(B_opf))} :
       \E m \in {ParseOpf(upload, BookRoot, B_opf).value} :
         files = DiskOf(ids, upload, m) /\ db = DbOf(ids, m)
  /\ opfRel = NotCalled
  /\ manifest = NotCalled
  /\ earlier = NotCalled
  /\ stored = <<>>
  /\ response = NotCalled
  /\ clock = 0
  /\ reader = ReaderSetup

\* GET /api/books/<id>/resource/<relPath>: a file is streamed; the stream of
\* a directory ends in an error without a body
GetResource ==
  /\ pc = "requested"
  /\ pc' = "answered"
  /\ \E id \in RouteIds, rel \in ResourceRels :
       /\ baseAbs' = BookRootOf(id)
       /\ relPath' = rel
       /\ joined' = SafeJoin(baseAbs', rel)
       /\ response' = [route |-> "resource", id |-> id] @@
            (IF joined'.kind = "threw" THEN Failed(404, joined'.error)
             ELSE IF joined'.value \in DOMAIN files
               THEN [status |-> 200, file |-> joined'.value]
             ELSE IF IsDirectory(files, joined'.value) THEN Failed(500, "EISDIR")
             ELSE Failed(404, "not found"))
  /\ UNCHANGED <<files, opfRel, manifest, earlier, db, stored, clock, reader>>

NextResource == GetResource

SpecResource == InitResource /\ [][NextResource]_vars

(***************************************************************************)
(* C22: GET /api/books/<id>/resource/<relPath> serves a file only if it    *)
(* lies inside the directory of book <id> directly under the books         *)
(* directory: for every <id> and <relPath> the route can match, including  *)
(* ".." segments in either, no file of another book and no file outside    *)
(* the books directory (such as the database file) is served.              *)
(***************************************************************************)
C22_ResourceInsideOwnBook ==
  response # NotCalled /\ response.route = "resource" /\ response.status = 200 =>
    /\ response.id \in BookIds
    /\ Len(Components(response.file)) > Len(Components(BooksDir)) + 1
    /\ SubSeq(Components(response.file), 1, Len(Components(BooksDir)) + 1)
         = Append(Components(BooksDir), IdChars(response.id))

\* the rows of the four tables that belong to the book
RowsOf(d, id) ==
  [book |-> IF id \in DOMAIN d.books THEN d.books[id] ELSE Absent,
   chapters |-> IF id \in DOMAIN d.chapters THEN d.chapters[id] ELSE Absent,
   progress |-> IF id \in DOMAIN d.progress THEN d.progress[id] ELSE Absent,
   bookmarks |-> {b \in d.bookmarks : b.bookId = id}]

\* the file lies in the directory of the book, directly under the books
\* directory
InBookDirectory(abs, id) ==
  /\ id \in BookIds
  /\ Len(Components(abs)) > Len(Components(BooksDir)) + 1
  /\ SubSeq(Components(abs), 1, Len(Components(BooksDir)) + 1)
       = Append(Components(BooksDir), IdChars(id))

(***************************************************************************)
(* C23: DELETE /api/books/:id changes nothing but the book with that id:   *)
(* for every id value the route can match, the records, chapters,          *)
(* bookmarks, progress and on-disk directories of all other books, and the *)
(* data directory outside that book's own directory, are left unchanged.   *)
(***************************************************************************)
C23_DeleteTouchesOneBook ==
  [][response'.route = "delete" =>
       /\ \A abs \in DOMAIN files :
            ~InBookDirectory(abs, response'.id) =>
              abs \in DOMAIN files' /\ files'[abs] = files[abs]
       /\ \A abs \in DOMAIN files' : abs \in DOMAIN files
       /\ \A other \in BookIds \ {response'.id} : RowsOf(db', other) = RowsOf(db, other)]_vars

(***************************************************************************)
(* C25: in every state reachable by any sequence of import and delete      *)
(* requests, including requests that fail partway, a book id has a stored  *)
(* manifest.json under the books directory if and only if it has a record  *)
(* in the books table; so GET /api/books/:id/manifest succeeds exactly for *)
(* the books returned by GET /api/books.                                   *)
(***************************************************************************)
C25_ManifestIffRecord ==
  \A id \in BookIds :
    PathJoin(BookRootOf(id), N_manifest_json) \in DOMAIN files <=> id \in DOMAIN db.books

(***************************************************************************)
(* db.ts on its own: the functions initDb returns, called in any order.    *)
(* `response` holds the last call and its outcome.                         *)
(***************************************************************************)
InitDb == InitImport

Called(name, bookId, outcome) == [call |-> name, bookId |-> bookId, outcome |-> outcome]

\* upsertBook(book, chapters)
CallUpsertBook ==
  /\ pc = "listening"
  /\ \E id \in BookIds, chapters \in ChapterLists :
       /\ db' = UpsertBook(db,
                  [id |-> id, title |-> <<"B", "k">>, opfPath |-> P_opf, coverHref |-> Absent,
                   lastOpenedAt |-> Absent, createdAt |-> 0],
                  chapters)
       /\ response' = Called("upsertBook", id, Returned(chapters))
  /\ UNCHANGED <<pc, baseAbs, relPath, joined, files, opfRel, manifest, earlier, stored,
                 clock, reader>>

\* deleteBook(id): the number of book rows deleted
CallDeleteBook ==
  /\ pc = "listening"
  /\ \E id \in BookIds :
       /\ db' = DeleteBook(db, id)
       /\ response' = Called("deleteBook", id,
                             Returned(IF id \in DOMAIN db.books THEN 1 ELSE 0))
  /\ UNCHANGED <<pc, baseAbs, relPath, joined, files, opfRel, manifest, earlier, stored,
                 clock, reader>>

\* upsertProgress(p)
CallUpsertProgress ==
  /\ pc = "listening"
  /\ \E id \in BookIds, at \in ScrollOffsets :
       LET done == UpsertProgress(db, [bookId |-> id, href |-> H_a, scrollX |-> at.x,
                                       scrollY |-> at.y, updatedAt |-> 0])
       IN /\ db' = IF done.kind = "threw" THEN db ELSE done.value
          /\ response' = Called("upsertProgress", id,
                                IF done.kind = "threw" THEN done ELSE Returned(TRUE))
  /\ UNCHANGED <<pc, baseAbs, relPath, joined, files, opfRel, manifest, earlier, stored,
                 clock, reader>>

\* addBookmark(b): the id of the row
CallAddBookmark ==
  /\ pc = "listening"
  /\ db.lastBookmarkId < MaxBookmarks
  /\ \E id \in BookIds :
       LET done == AddBookmark(db, [bookId |-> id, href |-> H_a, scrollX |-> 0,
                                    scrollY |-> 7, title |-> <<"B">>, createdAt |-> 0])
       IN /\ db' = IF done.kind = "threw" THEN db ELSE done.value
          /\ response' = Called("addBookmark", id,
                                IF done.kind = "threw" THEN done
                                ELSE Returned(done.value.lastBookmarkId))
  /\ UNCHANGED <<pc, baseAbs, relPath, joined, files, opfRel, manifest, earlier, stored,
                 clock, reader>>

\* deleteBookmark(bookId, id): the number of rows deleted
CallDeleteBookmark ==
  /\ pc = "listening"
  /\ \E bookId \in BookIds, bmId \in 1..MaxBookmarks :
       /\ db' = DeleteBookmark(db, bookId, bmId)
       /\ response' = Called("deleteBookmark", bookId,
                             Returned(Cardinality(db.bookmarks) - Cardinality(db'.bookmarks)))
  /\ UNCHANGED <<pc, baseAbs, relPath, joined, files, opfRel, manifest, earlier, stored,
                 clock, reader>>

NextDb ==
  \/ CallUpsertBook \/ CallDeleteBook \/ CallUpsertProgress \/ CallAddBookmark
  \/ CallDeleteBookmark

SpecDb == InitDb /\ [][NextDb]_vars

\* every chapter, progress and bookmark row refers to an existing book
RowsHaveBooks ==
  /\ DOMAIN db.chapters \subseteq DOMAIN db.books
  /\ DOMAIN db.progress \subseteq DOMAIN db.books
  /\ \A b \in db.bookmarks : b.bookId \in DOMAIN db.books

(***************************************************************************)
(* C24: after any sequence of upsertBook, deleteBook, upsertProgress,      *)
(* addBookmark and deleteBookmark, every stored chapter, progress and      *)
(* bookmark row refers to an existing book: deleting (or re-upserting) a   *)
(* book removes all of its chapters, progress and bookmarks, and saving    *)
(* progress or a bookmark for an unknown book id fails without storing a   *)
(* row.                                                                    *)
(***************************************************************************)
C24_RowsReferToBooks ==
  /\ []RowsHaveBooks
  /\ [][LET id == response'.bookId IN
        /\ response'.call = "deleteBook" =>
             /\ id \notin DOMAIN db'.books
             /\ RowsOf(db', id) = RowsOf(EmptyDb, id)
        /\ response'.call = "upsertBook" =>
             /\ id \in DOMAIN db'.books
             /\ db'.chapters[id] = response'.outcome.value
             /\ RowsOf(db', id).progress = Absent
             /\ RowsOf(db', id).bookmarks = {}
        /\ response'.call \in {"upsertProgress", "addBookmark"} /\ id \notin DOMAIN db.books =>
             /\ response'.outcome.kind = "threw"
             /\ db' = db]_vars

\* the book k1 has just been deleted after a bookmark had been stored, no
\* bookmark is left, and the other book still has its progress
C24_Witness ==
  /\ response # NotCalled
  /\ response.call = "deleteBook" /\ response.bookId = "k1" /\ response.outcome.value = 1
  /\ db.lastBookmarkId > 0
  /\ db.bookmarks = {}
  /\ DOMAIN db.progress = {"k2"}

(***************************************************************************)
(* The reader page: walking the chapters of a book.                        *)
(***************************************************************************)
InitChapters ==
  /\ pc = "listening"
  /\ baseAbs = BookRoot
  /\ relPath = <<>>
  /\ joined = NotCalled
  /\ \E upload \in ChapterPackages : files = upload
  /\ opfRel = NotCalled
  /\ manifest = NotCalled
  /\ earlier = NotCalled
  /\ stored = ("k1" :> ParseOpf(files, BookRoot, O_p_opf).value)
  /\ \E row \in ProgressRows(stored["k1"]) :
       db = IF row = Absent THEN LibraryOf(stored["k1"])
            ELSE UpsertProgress(LibraryOf(stored["k1"]), row).value
  /\ response = NotCalled
  /\ clock = 0
  /\ reader = ReaderSetup

\* loadCurrent finds an href and sets iframe.src
HasHref(r) == r.idx + 1 \in 1..Len(r.chapters) \/ r.idx + 1 \in 1..Len(r.spine)

Min(a, b) == IF a < b THEN a ELSE b
Max(a, b) == IF a > b THEN a ELSE b

\* the reader after idx is set and loadCurrent is called
Goto(r, i) == LoadCurrent([r EXCEPT !.idx = i])

\* a click in the chapter list: idx = i; loadCurrent()
ClickChapter ==
  /\ pc \in {"reading", "loaded"}
  /\ \E i \in 0..(Len(reader.chapters) - 1) :
       /\ reader' = Goto(reader, i)
       /\ pc' = IF HasHref(reader') THEN "reading" ELSE pc
  /\ UNCHANGED <<baseAbs, relPath, joined, files, opfRel, manifest, earlier, db, stored,
                 response, clock>>

\* nextChapter
NextChapter ==
  /\ pc \in {"reading", "loaded"}
  /\ reader' = Goto(reader, Min(Len(reader.spine) - 1, reader.idx + 1))
  /\ pc' = IF HasHref(reader') THEN "reading" ELSE pc
  /\ UNCHANGED <<baseAbs, relPath, joined, files, opfRel, manifest, earlier, db, stored,
                 response, clock>>

\* prevChapter
PrevChapter ==
  /\ pc \in {"reading", "loaded"}
  /\ reader' = Goto(reader, Max(0, reader.idx - 1))
  /\ pc' = IF HasHref(reader') THEN "reading" ELSE pc
  /\ UNCHANGED <<baseAbs, relPath, joined, files, opfRel, manifest, earlier, db, stored,
                 response, clock>>

NextChapters ==
  OpenReader \/ OnLoad \/ ClickChapter \/ NextChapter \/ PrevChapter \/ GoLibrary

SpecChapters == InitChapters /\ [][NextChapters]_vars

(***************************************************************************)
(* C26: in the reader, after any sequence of chapter-list clicks,          *)
(* nextChapter and prevChapter on a manifest with a non-empty spine, idx   *)
(* is a valid index of the displayed chapter list, nextChapter never moves *)
(* to an earlier chapter (idx after >= idx before) and prevChapter never   *)
(* moves to a later one, also when the chapter list is longer than the     *)
(* spine.                                                                  *)
(***************************************************************************)
C26_ChapterStepsAreMonotone ==
  /\ [](pc \in {"reading", "loaded"} /\ reader.spine # <<>> =>
          reader.idx \in 0..(Len(reader.chapters) - 1))
  /\ [][reader.spine # <<>> =>
          /\ NextChapter => reader'.idx >= reader.idx
          /\ PrevChapter => reader'.idx =< reader.idx]_vars

====
